---- MODULE Spec2Model ----
(***************************************************************************)
(* Eternity Cluster Archive: the USTAR encoder and TAR stream of           *)
(* src/ustar.js, and the tree, date filter, instance transforms and lazy   *)
(* walker of the server (src/unnamed/part_000).                            *)
(*                                                                         *)
(* Three specifications share the module's variables; each one pins the    *)
(* variables of the other components to their idle values:                 *)
(*   SpecHeader  UstarHeader.splitName / UstarHeader.toBuffer               *)
(*   SpecTar     createTarStream driving a TarFile, and its output stream  *)
(*   SpecWalk    buildTree, then one walkFiles run under a request's        *)
(*               filter and instance transform                             *)
(***************************************************************************)
EXTENDS Integers, Sequences, FiniteSets, TLC

VARIABLES
    \* ---- UstarHeader (src/ustar.js 12-83)
    hName,      \* header.name as UTF-8 bytes
    hSize,      \* header.size
    hMtime,     \* header.mtime
    hPc,        \* "idle" | "new" | "split" | "splitErr" | "built" | "buildErr"
    hSplit,     \* result of splitName: [name, prefix]
    hBuf,       \* result of toBuffer: 512 bytes
    \* ---- createTarStream / TarFile (src/ustar.js 85-129, part_000 675-686)
    tPc,        \* "idle" | "adding" | "ended" | "piped": createTarStream, then Packer.get
    tRecords,   \* the records written to outputStream, in write order
    tLogical,   \* TarFile._logicalRecords
    tLength,    \* tarLength, the value end() returned
    gPc,        \* the stream generator: "next" | "open" | "content" | "done" | "failed"
    gIdx,       \* number of records the generator has taken
    gLeft,      \* bytes the open file's read stream still holds
    tFaithful,  \* every file opened so far held exactly its registered stat.size bytes
    tOut,       \* the chunks the output stream has yielded: [kind, rec, len]
    tBuf,       \* the chunks yielded and not yet taken by the pipeline
    gOpen,      \* ids of the records whose file handle is open
    \* ---- buildTree (part_000 523-594)
    bPc,        \* "idle" | "building" | "failed" | "built"
    bEntries,   \* entries: the sorted result of fs.readdir
    bIdx,       \* number of entries the loop of buildTree has processed
    listening,  \* server.listen(PORT) has been called
    tree,       \* the Tree: path -> node
    \* ---- one request walking the tree (part_000 88-98, 114-183, 617-702)
    rPc,        \* "idle" | "walking" | "done" | "threw" | "rejected"
    rReq,       \* the request: [endpoint, path, instancesAs, createdBefore, modifiedAfter]
    rStatus,    \* status of the error response, 0 while there is none
    wStack,     \* walkFiles: stack
    wVisited,   \* the nodes popped and handed to the transform, in order
    wOut,       \* the nodes walkFiles has yielded, in order
    \* ---- the response and the request handler's catch (part_000 185-192, 755-836)
    res,        \* the response: [heads, text, length, bytes, state]
    err,        \* the error handleGet rejected with: absent, or [request, code, message]
    vPc,        \* raw file delivery: "idle" | "relaying" | "done" | "failed"
    vLength,    \* validateLength: sourceLength
    vRead,      \* validateLength: read
    vLeft,      \* bytes the file's read stream still holds
    vOpen,      \* raw file delivery: the file handle fh is open
    \* ---- raw deliveries of one File in flight together (part_000 802-836)
    cs,         \* per request: [pc, res, err, statSize, length, read, open]
    onDisk,     \* the size the File has on disk now
    \* ---- createZipStream and the zip branch of Packer.get (part_000 660-728)
    zip         \* [pc, entries, length, next]

hvars == <<hName, hSize, hMtime, hPc, hSplit, hBuf>>
tvars == <<tPc, tRecords, tLogical, tLength, gPc, gIdx, gLeft, tFaithful, tOut,
           tBuf, gOpen>>
bvars == <<bPc, bEntries, bIdx, tree, listening>>
wvars == <<rPc, rReq, rStatus, wStack, wVisited, wOut>>
svars == <<res, err, vPc, vLength, vRead, vLeft, vOpen>>
cvars == <<cs, onDisk>>
zvars == <<zip>>

vars == <<hName, hSize, hMtime, hPc, hSplit, hBuf,
          tPc, tRecords, tLogical, tLength, gPc, gIdx, gLeft, tFaithful, tOut,
          tBuf, gOpen,
          bPc, bEntries, bIdx, tree, listening,
          rPc, rReq, rStatus, wStack, wVisited, wOut,
          res, err, vPc, vLength, vRead, vLeft, vOpen,
          cs, onDisk, zip>>

----------------------------------------------------------------------------
(* The components at rest: a specification of one component keeps the others
   in these states *)

HeaderIdle ==
    /\ hName = <<>> /\ hSize = 0 /\ hMtime = 0
    /\ hPc = "idle" /\ hSplit = <<>> /\ hBuf = <<>>

TarIdle ==
    /\ tPc = "idle" /\ tRecords = <<>> /\ tLogical = 0 /\ tLength = 0
    /\ gPc = "next" /\ gIdx = 0 /\ gLeft = 0 /\ tFaithful = TRUE /\ tOut = <<>>
    /\ tBuf = <<>> /\ gOpen = {}

TreeIdle ==
    bPc = "idle" /\ bEntries = <<>> /\ bIdx = 0 /\ tree = <<>> /\ listening = FALSE

WalkIdle ==
    /\ rPc = "idle" /\ rReq = <<>> /\ rStatus = 0
    /\ wStack = <<>> /\ wVisited = <<>> /\ wOut = <<>>

\* A response nothing has been written to: the statuses writeHead was called
\* with, the text of a textResponse, the Content-Length announced (absent or
\* a number), the bytes a stream has written to it, and "open" | "ended" |
\* "reset".
NewResponse == [heads |-> <<>>, text |-> "", length |-> {}, bytes |-> 0, state |-> "open"]

\* No ZipFile has been made.
NoZip == [pc |-> "idle", entries |-> <<>>, length |-> {}, next |-> 0]

ServeIdle ==
    /\ res = NewResponse /\ err = {}
    /\ vPc = "idle" /\ vLength = 0 /\ vRead = 0 /\ vLeft = 0 /\ vOpen = FALSE
    /\ cs = <<>> /\ onDisk = 0
    /\ zip = NoZip

----------------------------------------------------------------------------
(* Bounds of the model *)

\* Most '/' bytes an encoded name holds.
MaxSlashes == 2

\* Most files one createTarStream call registers.
MaxFiles == 2

\* Most bytes a file's read stream hands over in one chunk.
ChunkMax == 512

\* Most save files the saves directory of the first instance holds.
MaxSaves == 3

----------------------------------------------------------------------------
(* Small helpers *)

Min(S) == CHOOSE x \in S : \A y \in S : x <= y
Max(S) == CHOOSE x \in S : \A y \in S : x >= y

RECURSIVE SumRange(_, _, _)
\* s[lo] + s[lo+1] + ... + s[hi]
SumRange(s, lo, hi) ==
    IF lo > hi THEN 0
    ELSE IF lo = hi THEN s[lo]
    ELSE LET mid == (lo + hi) \div 2
         IN  SumRange(s, lo, mid) + SumRange(s, mid + 1, hi)

\* Buffer.alloc(n)
Zeros(n) == SubSeq([i \in 1..n |-> 0], 1, n)

----------------------------------------------------------------------------
(* ASCII / UTF-8 bytes the encoder writes *)

Slash == 47
Space == 32
Digit0 == 48

----------------------------------------------------------------------------
(* UstarHeader *)

\* Field defaults of a new UstarHeader.
UstarHeader ==
    [ mode |-> 420,                       \* parseInt("0644", 8)
      uid |-> 1000,
      gid |-> 100,
      typeflag |-> <<48>>,                \* "0"
      linkname |-> <<>>,
      uname |-> <<117, 115, 101, 114>>,       \* "user"
      gname |-> <<117, 115, 101, 114, 115>>,  \* "users"
      devmajor |-> 0,
      devminor |-> 0 ]

\* buf.indexOf(byte, byteOffset): 0-based index of the first occurrence at or
\* after byteOffset, a negative byteOffset counting from the end; -1 if none.
BufIndexOf(buf, byte, byteOffset) ==
    LET from == IF byteOffset < 0
                THEN (IF Len(buf) + byteOffset < 0 THEN 0 ELSE Len(buf) + byteOffset)
                ELSE byteOffset
        hits == {i \in from..(Len(buf) - 1) : buf[i + 1] = byte}
    IN  IF hits = {} THEN -1 ELSE Min(hits)

\* buf.slice(start, end), 0-based, end exclusive.
BufSlice(buf, start, end) == SubSeq(buf, start + 1, end)

\* static splitName(name): [ok, name, prefix]; ok = FALSE is the thrown
\* "Encoded name is too long".
splitName(name) ==
    IF Len(name) <= 100
    THEN [ok |-> TRUE, name |-> name, prefix |-> <<>>]
    ELSE LET index == BufIndexOf(name, Slash, -100)
         IN  IF index = -1 \/ index > 155
             THEN [ok |-> FALSE, name |-> <<>>, prefix |-> <<>>]
             ELSE [ok |-> TRUE,
                   name |-> BufSlice(name, index + 1, Len(name)),
                   prefix |-> BufSlice(name, 0, index)]

RECURSIVE OctalDigits(_)
\* value.toString(8) as ASCII digits, for value >= 0.
OctalDigits(value) ==
    IF value < 8 THEN <<Digit0 + value>>
    ELSE Append(OctalDigits(value \div 8), Digit0 + (value % 8))

\* value.toString(8).padStart(length - 1, "0") + "\0"
EncodeNumeric(length, value) ==
    LET digits == OctalDigits(value)
        pad == IF Len(digits) < length - 1
               THEN SubSeq([i \in 1..length |-> Digit0], 1, length - 1 - Len(digits))
               ELSE <<>>
    IN  pad \o digits \o <<0>>

\* buf.write / Buffer.copy of bytes into buf at a 0-based offset.
BufWrite(buf, offset, bytes) ==
    LET n == IF offset + Len(bytes) > Len(buf) THEN Len(buf) - offset ELSE Len(bytes)
    IN  SubSeq(buf, 1, offset) \o SubSeq(bytes, 1, n)
            \o SubSeq(buf, offset + n + 1, Len(buf))

\* static writeNumeric(buf, field, offset, length, value): [ok, buf]; ok = FALSE
\* is the thrown "exceeds the fields maximum length".
writeNumeric(b, offset, length, value) ==
    LET encoded == EncodeNumeric(length, value)
    IN  IF ~b.ok \/ Len(encoded) # length
        THEN [ok |-> FALSE, buf |-> b.buf]
        ELSE [ok |-> TRUE, buf |-> BufWrite(b.buf, offset, encoded)]

\* static writeString(buf, field, offset, length, string, terminated)
writeString(b, offset, length, string, terminated) ==
    IF ~b.ok \/ Len(string) + (IF terminated THEN 1 ELSE 0) > length
    THEN [ok |-> FALSE, buf |-> b.buf]
    ELSE [ok |-> TRUE,
          buf |-> BufWrite(b.buf, offset, BufWrite(Zeros(length), 0, string))]

\* A mutant of chksumOf: the prefix field (bytes 345..) is left out of the sum.
chksumOf_skipPrefix(buf) == SumRange(buf, 1, 345)

\* let chksum = 0; for (const byte of buf) chksum += byte;
chksumOf(buf) == SumRange(buf, 1, Len(buf))

\* The writes of toBuffer before the checksum, in the order of the code.
\* op: "copy" (Buffer.copy / buf.write), "numeric" (writeNumeric) or
\* "string" (writeString).
HeaderWrites(split, size, mtime) ==
    LET h == UstarHeader
        W(op, offset, length, value, bytes, terminated) ==
            [op |-> op, offset |-> offset, length |-> length, value |-> value,
             bytes |-> bytes, terminated |-> terminated]
    IN  << W("copy", 0, 0, 0, split.name, FALSE),
           W("numeric", 100, 8, h.mode, <<>>, FALSE),
           W("numeric", 108, 8, h.uid, <<>>, FALSE),
           W("numeric", 116, 8, h.gid, <<>>, FALSE),
           W("numeric", 124, 12, size, <<>>, FALSE),
           W("numeric", 136, 12, mtime, <<>>, FALSE),
           W("copy", 148, 0, 0,
             <<Space, Space, Space, Space, Space, Space, Space, Space>>, FALSE),
           W("copy", 156, 0, 0, h.typeflag, FALSE),
           W("string", 157, 100, 0, h.linkname, FALSE),
           W("copy", 257, 0, 0, <<117, 115, 116, 97, 114, 10>>, FALSE),  \* "ustar\n"
           W("copy", 263, 0, 0, <<48, 48>>, FALSE),                      \* "00"
           W("string", 265, 32, 0, h.uname, TRUE),
           W("string", 297, 32, 0, h.gname, TRUE),
           W("numeric", 329, 8, h.devmajor, <<>>, FALSE),
           W("numeric", 337, 8, h.devminor, <<>>, FALSE),
           W("copy", 345, 0, 0, split.prefix, FALSE) >>

\* One write applied to b = [ok, buf]; a throw (ok = FALSE) ends the method.
ApplyWrite(b, w) ==
    IF w.op = "numeric" THEN writeNumeric(b, w.offset, w.length, w.value)
    ELSE IF w.op = "string"
    THEN writeString(b, w.offset, w.length, w.bytes, w.terminated)
    ELSE [ok |-> b.ok, buf |-> BufWrite(b.buf, w.offset, w.bytes)]

RECURSIVE ApplyWrites(_, _, _)
\* The writes from the i-th on, applied in order.
ApplyWrites(b, writes, i) ==
    IF i > Len(writes) THEN b
    ELSE CHOOSE r \in {ApplyWrites(nb, writes, i + 1) :
                        nb \in {ApplyWrite(b, writes[i])}} : TRUE

\* The checksum, summed over the buffer as written so far, into bytes 148..155.
WriteChksum(b) ==
    IF ~b.ok THEN [ok |-> FALSE, buf |-> <<>>]
    ELSE CHOOSE r \in {IF w.ok THEN w ELSE [ok |-> FALSE, buf |-> <<>>] :
                        w \in {writeNumeric(b, 148, 8, chksumOf(b.buf))}} : TRUE

\* toBuffer() of a header with the given name, size and mtime: [ok, buf];
\* ok = FALSE when splitName or a writeNumeric / writeString throws.
toBuffer(name, size, mtime) ==
    CHOOSE r \in
        {WriteChksum(b) :
            b \in {ApplyWrites([ok |-> split.ok, buf |-> Zeros(512)],
                               HeaderWrites(split, size, mtime), 1) :
                    split \in {splitName(name)}}} : TRUE

\* The name of len bytes with '/' at the given 0-based places, "a" elsewhere.
NameBytes(len, slashes) ==
    SubSeq([i \in 1..len |-> IF (i - 1) \in slashes THEN Slash ELSE 97], 1, len)

----------------------------------------------------------------------------
(* The response and the request handler's catch *)

\* An absent value (undefined) is the empty set, a present one a singleton.
undefined == {}
Some(v) == {v}
Get(o) == CHOOSE v \in o : TRUE

\* res.writeHead(code, { "Content-Length": length })
writeHead(r, code, length) ==
    [r EXCEPT !.heads = Append(@, code), !.length = {length}]

\* A chunk of n bytes written to the response by stream.pipeline.
writeChunk(r, n) == [r EXCEPT !.bytes = @ + n]

\* res.end()
endResponse(r) == [r EXCEPT !.state = "ended"]

\* textResponse(res, code, text): writeHead with the length of the text, then
\* res.end(content).
textResponse(r, code, text) ==
    [r EXCEPT !.heads = Append(@, code), !.length = {Len(text)},
              !.text = text, !.bytes = @ + Len(text), !.state = "ended"]

\* res.headersSent
headersSent(r) == r.heads # <<>>

\* new BadRequest(message), new NotFound(): a RequestError with its code.
BadRequest(message) == [request |-> TRUE, code |-> 400, message |-> message]
NotFound == [request |-> TRUE, code |-> 404, message |-> "Not Found"]

\* Any other error: a TypeError, an Error of a stream, a failed fs call.
OtherError(message) == [request |-> FALSE, code |-> 0, message |-> message]

\* A mutant of ErrorText: the message of whatever error was caught is sent.
ErrorText_leaky(e) == e.message

\* const message = err instanceof RequestError ? err.message : "Internal Server Error"
ErrorText(e) == IF e.request THEN e.message ELSE "Internal Server Error"

\* const code = err instanceof RequestError ? err.code : 500
ErrorCode(e) == IF e.request THEN e.code ELSE 500

\* A mutant of Caught: the error response is written whether or not the
\* headers were sent.
Caught_unguarded(r, e) == textResponse(r, ErrorCode(e), ErrorText(e))

\* The body of the catch of the request handler: the socket is reset if the
\* headers were sent, the error response is written if not.
Caught(r, e) ==
    IF headersSent(r) THEN [r EXCEPT !.state = "reset"]
    ELSE textResponse(r, ErrorCode(e), ErrorText(e))

\* handleGet(req, res) has rejected: the catch of the request handler runs.
Catch ==
    /\ err # {} /\ res.state = "open"
    /\ res' = Caught(res, Get(err))
    /\ UNCHANGED <<err, vPc, vLength, vRead, vLeft, vOpen>>
    /\ UNCHANGED <<hvars, cvars, zvars, tvars, bvars, wvars>>

----------------------------------------------------------------------------
(* TarFile and createTarStream *)

\* a % b of JavaScript: the remainder takes the sign of the dividend.
JsRem(a, b) == IF a >= 0 THEN a % b ELSE 0 - ((0 - a) % b)

\* A mutant of LogicalRecordsOf: the size is rounded down, not up.
LogicalRecordsOf_floor(size) == 1 + (size \div 512)

\* addFile: 1 + Math.floor((511 + stat.size) / 512)
LogicalRecordsOf(size) == 1 + ((511 + size) \div 512)

\* A mutant of PaddingOf: a whole record of padding after a full last record.
PaddingOf_full(size) == 512 - (size % 512)

\* const padding = ((-record.stat.size - 511) % 512) + 511;
PaddingOf(size) == JsRem((0 - size) - 511, 512) + 511

\* A mutant of RecordAt: the newest record is taken first.
RecordAt_lifo(records, k) == records[Len(records) + 1 - k]

\* for await (const record of records): the k-th record taken is the k-th written.
RecordAt(records, k) == records[k]

\* File sizes registered, around the 512-byte record size.
Sizes == {0, 1, 511, 512, 513, 1024}

\* metadataPath values registered, as [len, slashes] of NameBytes: one that
\* fits the name field and one too long to encode.
TarNames == {[len |-> 5, slashes |-> {1}], [len |-> 200, slashes |-> {}]}

\* Lengths a file of registered size may turn out to have when it is opened.
DiskSizes(size) == {size, size + 1} \cup (IF size > 0 THEN {size - 1} ELSE {})

\* new TarFile(), at the start of createTarStream.
InitTar ==
    /\ tPc = "adding" /\ tRecords = <<>> /\ tLogical = 0 /\ tLength = 0
    /\ gPc = "next" /\ gIdx = 0 /\ gLeft = 0 /\ tFaithful = TRUE /\ tOut = <<>>
    /\ tBuf = <<>> /\ gOpen = {}
    /\ HeaderIdle
    /\ TreeIdle
    /\ WalkIdle
    /\ ServeIdle

Chunk(kind, rec, len) == [kind |-> kind, rec |-> rec, len |-> len]

\* tarFile.addFile(file.realPath, nameFn(file), file.stat), one turn of the loop
\* of createTarStream.
AddFile ==
    /\ tPc = "adding"
    /\ Len(tRecords) < MaxFiles
    /\ \E size \in Sizes, name \in TarNames :
         /\ tRecords' = Append(tRecords,
                [type |-> "file", id |-> Len(tRecords) + 1, size |-> size, name |-> name])
         /\ tLogical' = tLogical + LogicalRecordsOf(size)
    /\ UNCHANGED <<tPc, tLength, gPc, gIdx, gLeft, tFaithful, tOut, tBuf, gOpen>>
    /\ UNCHANGED <<hvars, cvars, zvars, bvars, wvars, svars>>

\* const tarLength = tarFile.end();
End ==
    /\ tPc = "adding"
    /\ tRecords' = Append(tRecords,
            [type |-> "end", id |-> 0, size |-> 0, name |-> [len |-> 0, slashes |-> {}]])
    /\ tLogical' = tLogical + 2
    /\ tLength' = (tLogical + 2) * 512
    /\ tPc' = "ended"
    /\ UNCHANGED <<gPc, gIdx, gLeft, tFaithful, tOut, tBuf, gOpen>>
    /\ UNCHANGED <<hvars, cvars, zvars, bvars, wvars, svars>>

\* Packer.get: res.writeHead(200, ...) and stream.pipeline(tarStream, res); only
\* from here on is the generator asked for chunks.
Pipe ==
    /\ tPc = "ended"
    /\ tPc' = "piped"
    /\ res' = writeHead(res, 200, tLength)
    /\ UNCHANGED <<tRecords, tLogical, tLength, gPc, gIdx, gLeft, tFaithful, tOut,
                   tBuf, gOpen>>
    /\ UNCHANGED <<err, vPc, vLength, vRead, vLeft, vOpen>>
    /\ UNCHANGED <<hvars, cvars, zvars, bvars, wvars>>

\* The chunks the output stream may hold before it stops asking the generator
\* for more: stream.Duplex.from reads the generator through a Readable in
\* object mode with highWaterMark 1.
HighWaterMark == 1

\* A mutant of Wanted: the generator is run on whatever is buffered.
Wanted_always(buf) == TRUE

\* The output stream asks the generator for its next chunk (resumes it from
\* its yield) only while it holds fewer chunks than its highWaterMark.
Wanted(buf) == Len(buf) < HighWaterMark

\* The generator runs: the pipeline is on, has not failed, and a chunk is wanted.
Resumed == tPc = "piped" /\ err = {} /\ Wanted(tBuf)

\* The generator takes a "file" record: header.toBuffer() is yielded, or throws.
GenHeader ==
    /\ Resumed /\ gPc = "next" /\ gIdx < Len(tRecords)
    /\ \E record \in {RecordAt(tRecords, gIdx + 1)} :
         /\ record.type = "file"
         /\ gIdx' = gIdx + 1
         /\ IF toBuffer(NameBytes(record.name.len, record.name.slashes), record.size, 0).ok
            THEN /\ tOut' = Append(tOut, Chunk("header", record.id, 512))
                 /\ tBuf' = Append(tBuf, Chunk("header", record.id, 512))
                 /\ gPc' = "open"
                 /\ err' = err
            ELSE /\ tOut' = tOut /\ tBuf' = tBuf
                 /\ gPc' = "failed"
                 /\ err' = {OtherError("Encoded name is too long")}
    /\ UNCHANGED <<tPc, tRecords, tLogical, tLength, gLeft, tFaithful, gOpen>>
    /\ UNCHANGED <<res, vPc, vLength, vRead, vLeft, vOpen>>
    /\ UNCHANGED <<hvars, cvars, zvars, bvars, wvars>>

\* const fh = await fs.open(record.realPath): the file is gone, or it holds some
\* number of bytes now.
GenOpen ==
    /\ Resumed /\ gPc = "open"
    /\ \E record \in {RecordAt(tRecords, gIdx)} :
         \/ /\ gPc' = "failed"
            /\ err' = {OtherError("ENOENT: no such file or directory, open")}
            /\ UNCHANGED <<gLeft, tFaithful, gOpen>>
         \/ \E disk \in DiskSizes(record.size) :
              /\ gLeft' = disk
              /\ tFaithful' = (tFaithful /\ disk = record.size)
              /\ gOpen' = gOpen \cup {record.id}
              /\ gPc' = "content"
              /\ err' = err
    /\ UNCHANGED <<tPc, tRecords, tLogical, tLength, gIdx, tOut, tBuf>>
    /\ UNCHANGED <<res, vPc, vLength, vRead, vLeft, vOpen>>
    /\ UNCHANGED <<hvars, cvars, zvars, bvars, wvars>>

\* yield* fileStream: one chunk of the file.
GenContent ==
    /\ Resumed /\ gPc = "content" /\ gLeft > 0
    /\ \E record \in {RecordAt(tRecords, gIdx)}, n \in {IF gLeft < ChunkMax THEN gLeft ELSE ChunkMax} :
         /\ tOut' = Append(tOut, Chunk("content", record.id, n))
         /\ tBuf' = Append(tBuf, Chunk("content", record.id, n))
         /\ gLeft' = gLeft - n
    /\ UNCHANGED <<tPc, tRecords, tLogical, tLength, gPc, gIdx, tFaithful, gOpen>>
    /\ UNCHANGED <<res, err, vPc, vLength, vRead, vLeft, vOpen>>
    /\ UNCHANGED <<hvars, cvars, zvars, bvars, wvars>>

\* The file stream is exhausted and closes its file handle: the padding, if
\* any, is yielded.
GenPadding ==
    /\ Resumed /\ gPc = "content" /\ gLeft = 0
    /\ \E record \in {RecordAt(tRecords, gIdx)}, padding \in {PaddingOf(RecordAt(tRecords, gIdx).size)} :
         /\ tOut' = IF padding # 0
                    THEN Append(tOut, Chunk("padding", record.id, padding))
                    ELSE tOut
         /\ tBuf' = IF padding # 0
                    THEN Append(tBuf, Chunk("padding", record.id, padding))
                    ELSE tBuf
         /\ gOpen' = gOpen \ {record.id}
    /\ gPc' = "next"
    /\ UNCHANGED <<tPc, tRecords, tLogical, tLength, gIdx, gLeft, tFaithful>>
    /\ UNCHANGED <<res, err, vPc, vLength, vRead, vLeft, vOpen>>
    /\ UNCHANGED <<hvars, cvars, zvars, bvars, wvars>>

\* The generator takes the "end" record: Buffer.alloc(1024) is yielded, and the
\* records being exhausted the generator returns.
GenEnd ==
    /\ Resumed /\ gPc = "next" /\ gIdx < Len(tRecords)
    /\ RecordAt(tRecords, gIdx + 1).type = "end"
    /\ gIdx' = gIdx + 1
    /\ tOut' = Append(tOut, Chunk("end", 0, 1024))
    /\ tBuf' = Append(tBuf, Chunk("end", 0, 1024))
    /\ gPc' = IF gIdx + 1 = Len(tRecords) THEN "done" ELSE "next"
    /\ UNCHANGED <<tPc, tRecords, tLogical, tLength, gLeft, tFaithful, gOpen>>
    /\ UNCHANGED <<res, err, vPc, vLength, vRead, vLeft, vOpen>>
    /\ UNCHANGED <<hvars, cvars, zvars, bvars, wvars>>

\* stream.pipeline(tarStream, res): the response takes the oldest chunk the
\* output stream holds, when it is ready for one.
Deliver ==
    /\ tPc = "piped" /\ err = {} /\ res.state = "open"
    /\ tBuf # <<>>
    /\ res' = writeChunk(res, Head(tBuf).len)
    /\ tBuf' = Tail(tBuf)
    /\ UNCHANGED <<tPc, tRecords, tLogical, tLength, gPc, gIdx, gLeft, tFaithful, tOut,
                   gOpen>>
    /\ UNCHANGED <<err, vPc, vLength, vRead, vLeft, vOpen>>
    /\ UNCHANGED <<hvars, cvars, zvars, bvars, wvars>>

\* Packer.get: the pipeline has resolved, the stream having ended and all of
\* it being written; res.end().
PackerEnd ==
    /\ tPc = "piped" /\ gPc = "done" /\ tBuf = <<>> /\ res.state = "open"
    /\ res' = endResponse(res)
    /\ UNCHANGED <<err, vPc, vLength, vRead, vLeft, vOpen>>
    /\ UNCHANGED <<hvars, cvars, zvars, tvars, bvars, wvars>>

\* The client closes the connection while stream.pipeline is writing the
\* archive to the response: the pipeline rejects with a premature close,
\* nothing asks the output stream for more, and the generator is ended by the
\* error thrown into it.
ArchiveClientClose ==
    /\ res.state = "open" /\ headersSent(res) /\ err = {}
    /\ tPc = "piped" /\ (gPc # "done" \/ tBuf # <<>>)
    /\ gPc' = "failed"
    /\ err' = {OtherError("Premature close")}
    /\ UNCHANGED <<tPc, tRecords, tLogical, tLength, gIdx, gLeft, tFaithful, tOut,
                   tBuf, gOpen>>
    /\ UNCHANGED <<res, vPc, vLength, vRead, vLeft, vOpen>>
    /\ UNCHANGED <<hvars, cvars, zvars, bvars, wvars>>

\* A mutant of PipelineDestroy: the chunks are dropped and the file handle of
\* the generator is left open.
PipelineDestroy_leaks ==
    /\ err # {}
    /\ tBuf # <<>> \/ vOpen
    /\ tBuf' = <<>> /\ vOpen' = FALSE
    /\ UNCHANGED <<tPc, tRecords, tLogical, tLength, gPc, gIdx, gLeft, tFaithful, tOut,
                   gOpen>>
    /\ UNCHANGED <<res, err, vPc, vLength, vRead, vLeft>>
    /\ UNCHANGED <<hvars, cvars, zvars, bvars, wvars>>

\* stream.pipeline destroys its streams when it fails: the chunks held are
\* dropped, and a read stream that is destroyed closes its file handle.
PipelineDestroy ==
    /\ err # {}
    /\ tBuf # <<>> \/ gOpen # {} \/ vOpen
    /\ tBuf' = <<>> /\ gOpen' = {} /\ vOpen' = FALSE
    /\ UNCHANGED <<tPc, tRecords, tLogical, tLength, gPc, gIdx, gLeft, tFaithful, tOut>>
    /\ UNCHANGED <<res, err, vPc, vLength, vRead, vLeft>>
    /\ UNCHANGED <<hvars, cvars, zvars, bvars, wvars>>

NextTar ==
    \/ AddFile \/ End \/ Pipe
    \/ GenHeader \/ GenOpen \/ GenContent \/ GenPadding \/ GenEnd
    \/ Deliver \/ PackerEnd \/ ArchiveClientClose \/ PipelineDestroy \/ Catch

SpecTar == InitTar /\ [][NextTar]_vars

----------------------------------------------------------------------------
(* The filesystem under ROOT_DIR *)

\* A number that is not one: the getTime() of an invalid Date.
NaN == -1

\* Minutes from 2024-01-01T00:00Z to the first day of month k of 2024; the
\* model counts time in minutes where the code counts milliseconds.
MonthStart(k) ==
    1440 * (CASE k = 1 -> 0 [] k = 2 -> 31 [] k = 3 -> 60 [] k = 4 -> 91
              [] k = 5 -> 121 [] k = 6 -> 152 [] k = 7 -> 182 [] k = 8 -> 213
              [] OTHER -> 244)

\* The k-th save file, named after the time it was made.
SaveName(k) == "2024-0" \o ToString(k) \o "-01T00_00_00.zip"

\* new Date(name.replace(/_/g, ":").slice(0, -4)).getTime(): the name is read
\* in the server's local time, taken here to be UTC; any other name gives NaN.
SaveNameTime(name) ==
    IF \E k \in 1..9 : name = SaveName(k)
    THEN MonthStart(CHOOSE k \in 1..9 : name = SaveName(k))
    ELSE NaN

\* A directory entry of fs.readdir(..., { withFileTypes: true, recursive: true })
\* with what fs.stat says of it; path is entry.path without the leading ROOT_DIR.
Dirent(path, name, isDir, size, mtimeMs) ==
    [path |-> path, name |-> name, isDir |-> isDir, size |-> size, mtimeMs |-> mtimeMs]

\* Every entry a modelled filesystem may hold, in the order of
\* entries.sort((a, b) => strcmp(entryPath(a), entryPath(b))).
Universe ==
    << Dirent("", "a.txt", FALSE, 1, MonthStart(3) + 7),
       Dirent("", "docs", TRUE, 0, 0),
       Dirent("/docs", "b.txt", FALSE, 512, MonthStart(1) + 3),
       Dirent("/docs", "saves", TRUE, 0, 0),
       Dirent("/docs/saves", SaveName(1), FALSE, 7, MonthStart(1) + 1),
       Dirent("", "instances", TRUE, 0, 0),
       Dirent("/instances", "i1", TRUE, 0, 0),
       Dirent("/instances/i1", "instance.json", FALSE, 513, 2),
       Dirent("/instances/i1", "saves", TRUE, 0, 0) >>
    \o [k \in 1..MaxSaves |->
          Dirent("/instances/i1/saves", SaveName(k), FALSE, 1024 * k, MonthStart(k) + 5)]
    \o << Dirent("/instances/i1/saves", "unpacked", TRUE, 0, 0),
          Dirent("/instances/i1/saves", "world.zip", FALSE, 64, MonthStart(1) + 8),
          Dirent("/instances", "i2", TRUE, 0, 0),
          Dirent("/instances/i2", "instance.json", FALSE, 511, 4),
          Dirent("/instances/i2", "saves", TRUE, 0, 0),
          Dirent("/instances/i2/saves", SaveName(2), FALSE, 100, MonthStart(2) + 9),
          Dirent("", "README.md", FALSE, 9, MonthStart(1) + 2) >>

\* JSON.parse(await fs.readFile(realPath + "/instance.json")) of an instance
\* directory.
InstanceConfig(name) ==
    IF name = "i1" THEN [title |-> "Alpha", id |-> 1]
    ELSE [title |-> "Beta / Two", id |-> 2]

\* The filesystems modelled: which saves the first instance has, whether its
\* saves directory exists, holds a subdirectory, holds a save whose name is no
\* date, and the second instance.
FsChoices ==
    {c \in [saves : SUBSET (1..MaxSaves), savesDir : BOOLEAN, unpacked : BOOLEAN,
            world : BOOLEAN, i2 : {"absent", "bare", "saves", "undescribed"},
            readme : BOOLEAN] :
        /\ ~c.savesDir => (c.saves = {} /\ ~c.unpacked /\ ~c.world)
        /\ c.world => (~c.unpacked /\ c.i2 = "absent")
        /\ (c.readme \/ c.i2 = "undescribed") => (c.saves \subseteq {1} /\ ~c.unpacked)}

\* Whether the filesystem of choice c holds entry e.
Present(c, e) ==
    IF e.path = "/instances/i1/saves"
    THEN IF e.isDir THEN c.unpacked
         ELSE IF e.name = "world.zip" THEN c.world
         ELSE \E k \in c.saves : e.name = SaveName(k)
    ELSE IF e.path = "/instances/i1" /\ e.name = "saves" THEN c.savesDir
    ELSE IF e.path = "/instances" /\ e.name = "i2" THEN c.i2 # "absent"
    ELSE IF e.path = "/instances/i2" /\ e.name = "instance.json"
         THEN c.i2 \in {"bare", "saves"}
    ELSE IF e.path = "" /\ e.name = "README.md" THEN c.readme
    ELSE IF e.path = "/instances/i2" /\ e.name = "saves" THEN c.i2 = "saves"
    ELSE IF e.path = "/instances/i2/saves" THEN c.i2 = "saves"
    ELSE TRUE

\* The sorted entries of the filesystem of choice c.
SortedEntries(c) == SelectSeq(Universe, LAMBDA e : Present(c, e))

----------------------------------------------------------------------------
(* Nodes and buildTree *)


\* instanceof Dir (Root is no Dir), instanceof File.
IsDir(node) == node.kind \in {"Dir", "InstancesDir", "Instance", "SavesDir"}
IsFile(node) == node.kind \in {"File", "Save"}
\* node instanceof Dir || node instanceof Root
IsContainer(node) == IsDir(node) \/ node.kind = "Root"

\* const ROOT_DIR = process.env.ROOT_DIR ?? "public"
ROOT_DIR == "public"

\* A node as its constructor leaves it. parent is the parent's key in the Tree
\* ("" for Root), entries the children in insertion order, stat absent for
\* containers; title is the Instance's config["instance.name"].
Node(kind, parent, name, realPath, stat, createdAtMs, modifiedAtMs, title) ==
    [kind |-> kind, parent |-> parent, name |-> name, realPath |-> realPath,
     entries |-> <<>>, stat |-> stat,
     foldersCount |-> 0, filesCount |-> 0, totalSize |-> 0,
     createdAtMs |-> createdAtMs, modifiedAtMs |-> modifiedAtMs, title |-> title]

\* new Root()
NewRoot == Node("Root", "", "", ROOT_DIR, undefined, undefined, undefined, "")

\* new Dir / InstancesDir / SavesDir (parent, name, realPath)
NewDir(kind, parent, name, realPath) ==
    Node(kind, parent, name, realPath, undefined, undefined, undefined, "")

\* new Instance(parent, name, realPath, config)
NewInstance(parent, name, realPath, config) ==
    Node("Instance", parent, name, realPath, undefined, undefined, undefined, config.title)

\* new File(parent, name, realPath, stat): modifiedAtMs = stat.mtimeMs
NewFile(parent, name, realPath, stat) ==
    Node("File", parent, name, realPath, Some(stat), undefined, Some(stat.mtimeMs), "")

\* new Save(parent, name, realPath, stat): a File whose createdAtMs is read
\* from its name.
NewSave(parent, name, realPath, stat) ==
    Node("Save", parent, name, realPath, Some(stat),
         Some(SaveNameTime(name)), Some(stat.mtimeMs), "")

RECURSIVE PathOf(_, _)
\* get path(): "/" for Root, parent.path + name for a File, and with a
\* trailing "/" for a Dir; t is the Tree the parent is looked up in.
PathOf(t, node) ==
    IF node.kind = "Root" THEN "/"
    ELSE IF IsDir(node) THEN PathOf(t, t[node.parent]) \o node.name \o "/"
    ELSE PathOf(t, t[node.parent]) \o node.name

\* A mutant of DirKind: a directory is classified by its name alone where the
\* code also looks at its parent.
DirKind_byName(parent, name) ==
    IF name = "instances" THEN "InstancesDir"
    ELSE IF parent.kind = "InstancesDir" THEN "Instance"
    ELSE IF name = "saves" THEN "SavesDir"
    ELSE "Dir"

\* The class buildEntry makes a directory entry a node of.
DirKind(parent, name) ==
    IF parent.kind = "Root" /\ name = "instances" THEN "InstancesDir"
    ELSE IF parent.kind = "InstancesDir" THEN "Instance"
    ELSE IF parent.kind = "Instance" /\ name = "saves" THEN "SavesDir"
    ELSE "Dir"

\* buildEntry(tree, parent, entry, realPath), parentKey being the key parent
\* was found under: the Tree with the new node set and added to its parent's
\* entries.
buildEntry(t, parentKey, entry, realPath) ==
    LET parent == t[parentKey]
        node ==
            IF entry.isDir
            THEN IF DirKind(parent, entry.name) = "Instance"
                 THEN NewInstance(parentKey, entry.name, realPath, InstanceConfig(entry.name))
                 ELSE NewDir(DirKind(parent, entry.name), parentKey, entry.name, realPath)
            ELSE IF parent.kind = "SavesDir"
                 THEN NewSave(parentKey, entry.name, realPath,
                              [size |-> entry.size, mtimeMs |-> entry.mtimeMs])
                 ELSE NewFile(parentKey, entry.name, realPath,
                              [size |-> entry.size, mtimeMs |-> entry.mtimeMs])
    IN  CHOOSE r \in
            {(key :> n) @@ [t EXCEPT ![parentKey].entries = Append(@, key)] :
                <<key, n>> \in {<<PathOf(t, n), n>> : n \in {node}}} : TRUE

\* Math.min(a ?? +Infinity, b), Math.max(a ?? -Infinity, b): NaN if b is.
MinMs(a, b) == IF a = undefined THEN b
               ELSE IF b = NaN \/ Get(a) = NaN THEN NaN
               ELSE IF b < Get(a) THEN b ELSE Get(a)
MaxMs(a, b) == IF a = undefined THEN b
               ELSE IF b = NaN \/ Get(a) = NaN THEN NaN
               ELSE IF b > Get(a) THEN b ELSE Get(a)

\* A mutant of AddChild: only the direct children are counted.
AddChild_direct(node, child) ==
    [node EXCEPT
        !.foldersCount = @ + (IF IsDir(child) THEN 1 ELSE 0),
        !.filesCount = @ + (IF IsFile(child) THEN 1 ELSE 0),
        !.totalSize = @ + child.totalSize,
        !.createdAtMs = IF child.createdAtMs # undefined
                        THEN Some(MinMs(@, Get(child.createdAtMs))) ELSE @,
        !.modifiedAtMs = IF child.modifiedAtMs # undefined
                         THEN Some(MaxMs(@, Get(child.modifiedAtMs))) ELSE @]

\* The body of the loop of calculateMeta: the child's figures added to node's.
AddChild(node, child) ==
    [node EXCEPT
        !.foldersCount = @ + child.foldersCount + (IF IsDir(child) THEN 1 ELSE 0),
        !.filesCount = @ + child.filesCount + (IF IsFile(child) THEN 1 ELSE 0),
        !.totalSize = @ + child.totalSize,
        !.createdAtMs = IF child.createdAtMs # undefined
                        THEN Some(MinMs(@, Get(child.createdAtMs))) ELSE @,
        !.modifiedAtMs = IF child.modifiedAtMs # undefined
                         THEN Some(MaxMs(@, Get(child.modifiedAtMs))) ELSE @]

RECURSIVE calculateMeta(_, _)
RECURSIVE CalculateChildren(_, _, _)

\* The loop of calculateMeta over node.entries, from the i-th child on.
CalculateChildren(t, key, i) ==
    IF i > Len(t[key].entries) THEN t
    ELSE CHOOSE r \in
            {CalculateChildren([t1 EXCEPT ![key] = AddChild(@, t1[child])], key, i + 1) :
                <<t1, child>> \in {<<calculateMeta(t, c), c>> : c \in {t[key].entries[i]}}} :
            TRUE

\* calculateMeta(node), node being t[key]: the Tree with the figures of the
\* whole subtree of node set.
calculateMeta(t, key) ==
    IF IsDir(t[key]) \/ t[key].kind = "Root" THEN CalculateChildren(t, key, 1)
    ELSE IF IsFile(t[key]) THEN [t EXCEPT ![key].totalSize = Get(t[key].stat).size]
    ELSE t

\* const mimeTypes = new Map(...)
mimeTypes ==
    (".css" :> "text/css; charset=utf-8")
    @@ (".txt" :> "text/plain; charset=utf-8")
    @@ (".json" :> "application/json; charset=utf-8")
    @@ (".zip" :> "application/zip")

\* name.lastIndexOf("."), counted from 0; -1 without a dot.
LastDot(name) ==
    IF \E i \in 1..Len(name) : SubSeq(name, i, i) = "."
    THEN (CHOOSE i \in 1..Len(name) :
             /\ SubSeq(name, i, i) = "."
             /\ \A k \in (i + 1)..Len(name) : SubSeq(name, k, k) # ".") - 1
    ELSE -1

\* A mutant of mimeFor: a name with an unknown extension gets a default type.
mimeFor_lenient(name) ==
    LET ext == IF LastDot(name) < 0 THEN SubSeq(name, Len(name), Len(name))
               ELSE SubSeq(name, LastDot(name) + 1, Len(name))
    IN  IF ext \in DOMAIN mimeTypes THEN {mimeTypes[ext]}
        ELSE {"application/octet-stream"}

\* mimeFor(name): the type of the extension name.slice(name.lastIndexOf(".")),
\* absent where the code throws "Missing MIME type".
mimeFor(name) ==
    LET ext == IF LastDot(name) < 0 THEN SubSeq(name, Len(name), Len(name))
               ELSE SubSeq(name, LastDot(name) + 1, Len(name))
    IN  IF ext \in DOMAIN mimeTypes THEN {mimeTypes[ext]} ELSE {}

\* The file realPath + "/instance.json" of the directory the entry names is
\* there to be read.
HasDescriptor(entries, entry) ==
    \E i \in 1..Len(entries) :
        /\ entries[i].path = entry.path \o "/" \o entry.name
        /\ entries[i].name = "instance.json"
        /\ ~entries[i].isDir

\* buildEntry awaits a filesystem read for the entry: fs.readFile of the
\* descriptor of an Instance, fs.stat of a file.
AwaitsRead(t, parentKey, entry) ==
    IF entry.isDir
    THEN parentKey \in DOMAIN t /\ DirKind(t[parentKey], entry.name) = "Instance"
    ELSE TRUE

\* buildEntry throws whatever the reads give: no parent was found under
\* parentPath + "/", the descriptor of an Instance is missing, or the file's
\* extension has no MIME type.
BuildThrows(t, entries, parentKey, entry) ==
    \/ parentKey \notin DOMAIN t
    \/ entry.isDir /\ DirKind(t[parentKey], entry.name) = "Instance"
                   /\ ~HasDescriptor(entries, entry)
    \/ ~entry.isDir /\ mimeFor(entry.name) = {}

\* One turn of the loop of buildTree. The build fails when buildEntry throws;
\* rejects says that the read it awaits is rejected (the file went away, the
\* descriptor does not parse).
BuildEntry ==
    /\ bPc = "building" /\ bIdx < Len(bEntries)
    /\ \E entry \in {bEntries[bIdx + 1]} :
         \E parentKey \in {entry.path \o "/"} :
         \E rejects \in IF AwaitsRead(tree, parentKey, entry) THEN BOOLEAN ELSE {FALSE} :
            IF ~rejects /\ ~BuildThrows(tree, bEntries, parentKey, entry)
            THEN /\ tree' = buildEntry(tree, parentKey, entry,
                                       ROOT_DIR \o entry.path \o "/" \o entry.name)
                 /\ bIdx' = bIdx + 1
                 /\ bPc' = bPc
            ELSE /\ bPc' = "failed"
                 /\ UNCHANGED <<tree, bIdx>>
    /\ UNCHANGED <<bEntries, listening>>
    /\ UNCHANGED <<hvars, cvars, zvars, tvars, wvars, svars>>

\* calculateMeta(root); return tree;
CalculateMeta ==
    /\ bPc = "building" /\ bIdx = Len(bEntries)
    /\ tree' = calculateMeta(tree, "/")
    /\ bPc' = "built"
    /\ UNCHANGED <<bEntries, bIdx, listening>>
    /\ UNCHANGED <<hvars, cvars, zvars, tvars, wvars, svars>>

\* The module runs on after "const tree = await buildTree()": the resources
\* are set up, for which style.css is read, and server.listen(PORT) is called.
\* If the read is rejected the module fails before it listens.
Listen ==
    /\ bPc = "built" /\ ~listening
    /\ \/ listening' = TRUE /\ bPc' = bPc
       \/ listening' = listening /\ bPc' = "failed"
    /\ UNCHANGED <<bEntries, bIdx, tree>>
    /\ UNCHANGED <<hvars, cvars, zvars, tvars, wvars, svars>>

----------------------------------------------------------------------------
(* The date filter and the instance transforms *)

\* A node handed around during a request: a node of the Tree, by its key, or
\* a node a transform has made (syn = <<node>>), whose entries are such
\* references themselves.
TreeRef(path) == [path |-> path, syn |-> <<>>]
SynRef(node) == [path |-> "", syn |-> <<node>>]
NodeOf(ref) == IF ref.syn = <<>> THEN tree[ref.path] ELSE ref.syn[1]

\* [...node.entries.values()]
EntriesOf(ref) ==
    IF ref.syn = <<>>
    THEN LET e == tree[ref.path].entries
         IN  SubSeq([i \in 1..Len(e) |-> TreeRef(e[i])], 1, Len(e))
    ELSE ref.syn[1].entries

\* /^\d{4}-\d{2}-\d{2}T\d{2}:\d{2}$/.test(value), on the values requests carry.
DateShape(value) ==
    value \in {"2024-02-01T00:00", "2024-02-15T00:00", "2024-02-01T00:05",
               "2024-13-01T00:00"}

\* new Date(value + "Z").getTime(), in minutes from 2024-01-01T00:00Z.
DateMs(value) ==
    CASE value = "2024-02-01T00:00" -> MonthStart(2)
      [] value = "2024-02-15T00:00" -> MonthStart(2) + 14 * 1440
      [] value = "2024-02-01T00:05" -> MonthStart(2) + 5
      [] OTHER -> NaN

\* a < b and a > b of two numbers, either of which may be NaN.
Less(a, b) == a # NaN /\ b # NaN /\ a < b
Greater(a, b) == a # NaN /\ b # NaN /\ a > b

\* fileFilterFromUrl(url): ok = FALSE with the BadRequest thrown; otherwise
\* createdBeforeMs and modifiedAfterMs, each absent or a number.
fileFilterFromUrl(req) ==
    IF req.createdBefore # {} /\ ~DateShape(Get(req.createdBefore))
    THEN [ok |-> FALSE, createdBeforeMs |-> undefined, modifiedAfterMs |-> undefined,
          thrown |-> {BadRequest("Invalid created-before " \o Get(req.createdBefore)
                                 \o ", valid format 'YYYY-MM-DDTHH:MM'")}]
    ELSE IF req.modifiedAfter # {} /\ ~DateShape(Get(req.modifiedAfter))
    THEN [ok |-> FALSE, createdBeforeMs |-> undefined, modifiedAfterMs |-> undefined,
          thrown |-> {BadRequest("Invalid modified-after " \o Get(req.modifiedAfter)
                                 \o ", valid format 'YYYY-MM-DDTHH:MM'")}]
    ELSE [ok |-> TRUE, thrown |-> {},
          createdBeforeMs |-> IF req.createdBefore # {} /\ Get(req.createdBefore) # ""
                              THEN Some(DateMs(Get(req.createdBefore))) ELSE undefined,
          modifiedAfterMs |-> IF req.modifiedAfter # {} /\ Get(req.modifiedAfter) # ""
                              THEN Some(DateMs(Get(req.modifiedAfter))) ELSE undefined]

\* A mutant of fileFilter: a timestamp equal to its bound passes.
fileFilter_inclusive(f, node) ==
    /\ \/ f.createdBeforeMs = undefined \/ node.createdAtMs = undefined
       \/ ~Greater(Get(node.createdAtMs), Get(f.createdBeforeMs))
    /\ \/ f.modifiedAfterMs = undefined \/ node.modifiedAtMs = undefined
       \/ ~Less(Get(node.modifiedAtMs), Get(f.modifiedAfterMs))

\* The filter fileFilterFromUrl returns, applied to a node: id (every node is
\* truthy) without bounds, the date comparison otherwise.
fileFilter(f, node) ==
    IF f.createdBeforeMs = undefined /\ f.modifiedAfterMs = undefined
    THEN TRUE
    ELSE /\ \/ f.createdBeforeMs = undefined
            \/ node.createdAtMs = undefined
            \/ Less(Get(node.createdAtMs), Get(f.createdBeforeMs))
         /\ \/ f.modifiedAfterMs = undefined
            \/ node.modifiedAtMs = undefined
            \/ Greater(Get(node.modifiedAtMs), Get(f.modifiedAfterMs))

\* last(filter(fileFilter, saves)): the last passing entry, absent if none.
LastPassing(f, saves) ==
    LET passing == {i \in 1..Len(saves) : fileFilter(f, NodeOf(saves[i]))}
    IN  IF passing = {} THEN undefined ELSE Some(saves[Max(passing)])

\* node.entries.get(name): the child of that name, absent if there is none.
EntryNamed(ref, name) ==
    LET e == EntriesOf(ref)
        hits == {i \in 1..Len(e) : NodeOf(e[i]).name = name}
    IN  IF hits = {} THEN undefined ELSE Some(e[CHOOSE i \in hits : TRUE])

\* title.replace(" / ") + ".zip": the missing second argument puts
\* "undefined" in place of the first " / ".
LastSaveName(title) ==
    IF title = "Beta / Two" THEN "Betaundefined Two.zip" ELSE title \o ".zip"

\* What a transform returns for a node: the node or its substitute, nothing
\* (undefined), or a thrown TypeError.
Returned(ref) == [t |-> "node", ref |-> ref]
Nothing == [t |-> "undefined", ref |-> TreeRef("")]
Thrown(message) == [t |-> "throw", ref |-> TreeRef(""), message |-> message]

\* A mutant of FilterTransform: only containers are put to the filter.
FilterTransform_containers(f, ref) ==
    IF IsFile(NodeOf(ref)) \/ fileFilter(f, NodeOf(ref)) THEN Returned(ref) ELSE Nothing

\* A mutant of FilterTransform: only files are put to the filter.
FilterTransform_leaves(f, ref) ==
    IF ~IsFile(NodeOf(ref)) \/ fileFilter(f, NodeOf(ref)) THEN Returned(ref) ELSE Nothing

\* node => fileFilter(node) ? node : undefined
FilterTransform(f, ref) == IF fileFilter(f, NodeOf(ref)) THEN Returned(ref) ELSE Nothing

\* The "last-save" transform of nodeTransformFromUrl.
LastSaveTransform(f, ref) ==
    IF NodeOf(ref).kind # "Instance" THEN FilterTransform(f, ref)
    ELSE LET savesDir == EntryNamed(ref, "saves") IN
         IF savesDir = undefined \/ ~(IsDir(NodeOf(Get(savesDir))))
         THEN \* node.entries.get("saves").entries of undefined
              Thrown("Cannot read properties of undefined (reading 'entries')")
         ELSE LET file == LastPassing(f, EntriesOf(Get(savesDir))) IN
              IF file = undefined THEN Nothing
              ELSE IF NodeOf(Get(file)).stat = undefined
              THEN \* new Save(..., file.stat): stat.mtimeMs of undefined
                   Thrown("Cannot read properties of undefined (reading 'mtimeMs')")
              ELSE Returned(SynRef(
                      NewSave(NodeOf(ref).parent, LastSaveName(NodeOf(ref).title),
                              NodeOf(Get(file)).realPath, Get(NodeOf(Get(file)).stat))))

\* The "clusterio-last-save" transform of nodeTransformFromUrl.
ClusterioTransform(f, ref) ==
    IF NodeOf(ref).kind # "Instance" THEN FilterTransform(f, ref)
    ELSE LET savesDir == EntryNamed(ref, "saves") IN
         IF savesDir = undefined \/ ~(IsDir(NodeOf(Get(savesDir))))
         THEN \* savesDir.entries of undefined
              Thrown("Cannot read properties of undefined (reading 'entries')")
         ELSE LET file == LastPassing(f, EntriesOf(Get(savesDir))) IN
              IF file = undefined THEN Nothing
              ELSE LET node == NodeOf(ref)
                       e == EntriesOf(ref)
                       newSavesDir ==
                           [NewDir("SavesDir", ref.path, "saves",
                                   NodeOf(Get(savesDir)).realPath)
                               EXCEPT !.entries = <<Get(file)>>]
                       instance ==
                           [Node("Instance", node.parent, node.name, node.realPath,
                                 undefined, undefined, undefined, node.title)
                               EXCEPT !.entries =
                                   SubSeq([i \in 1..Len(e) |->
                                              IF NodeOf(e[i]).name = "saves"
                                              THEN SynRef(newSavesDir) ELSE e[i]],
                                          1, Len(e))]
                   IN  Returned(SynRef(instance))

\* nodeTransformFromUrl(url, fileFilter): the transform of the mode, applied;
\* /files uses the filter transform whatever instances-as says.
nodeTransform(mode, f, ref) ==
    IF mode = "last-save" THEN LastSaveTransform(f, ref)
    ELSE IF mode = "clusterio-last-save" THEN ClusterioTransform(f, ref)
    ELSE FilterTransform(f, ref)

----------------------------------------------------------------------------
(* A request walking the tree *)

\* A query parameter is absent ({}, searchParams.get gives null) or a string.
Params(values) == {{}} \cup {{v} : v \in values}

\* The paths requests ask for: nodes of every kind, and one that is no node.
Paths ==
    Params({"/instances/", "/instances/i1/", "/instances/i1/saves/",
            "/instances/i1/saves/" \o SaveName(2), "/nope"})

\* The values of created-before and modified-after requests carry.
CreatedBefores ==
    Params({"2024-02-01T00:00", "2024-02-15T00:00", "2024-13-01T00:00", "yesterday"})
ModifiedAfters == Params({"2024-02-01T00:05", ""})

\* The GET requests on /files.
ListingRequests ==
    [endpoint : {"/files"}, path : Paths, format : Params({"tar", "bogus"}),
     instancesAs : {{}},
     createdBefore : CreatedBefores, modifiedAfter : ModifiedAfters]

\* The GET requests on /pack.
PackRequests ==
    [endpoint : {"/pack"}, path : Paths, format : Params({"tar", "bogus"}),
     instancesAs : Params({"last-save", "clusterio-last-save", "bogus"}),
     createdBefore : CreatedBefores, modifiedAfter : ModifiedAfters]

\* url.searchParams.get(name) ?? fallback
OrElse(param, fallback) == IF param = {} THEN fallback ELSE Get(param)

\* The transform mode of a request: /files always filters only.
ModeOf(req) ==
    IF req.endpoint = "/files" THEN "folder" ELSE OrElse(req.instancesAs, "folder")

\* String(value) of a query parameter inside a message.
Shown(param) == IF param = {} THEN "null" ELSE Get(param)

\* A mutant of ListingError: the format is not looked at before the walk.
ListingError_anyFormat(req) ==
    IF ~fileFilterFromUrl(req).ok THEN fileFilterFromUrl(req).thrown
    ELSE IF OrElse(req.path, "/") \notin DOMAIN tree THEN {NotFound}
    ELSE {}

\* FileListing.get up to its use of the walker: the error it throws, absent
\* if it throws none.
ListingError(req) ==
    IF ~fileFilterFromUrl(req).ok THEN fileFilterFromUrl(req).thrown
    ELSE IF OrElse(req.path, "/") \notin DOMAIN tree THEN {NotFound}
    ELSE IF OrElse(req.format, "plain") \notin {"plain", "json"}
    THEN {BadRequest("Invalid format " \o OrElse(req.format, "plain")
                     \o ", valid values: plain, json")}
    ELSE {}

\* Packer.get up to its use of the walker: the error it throws, absent if it
\* throws none.
PackerError(req) ==
    IF ~fileFilterFromUrl(req).ok THEN fileFilterFromUrl(req).thrown
    ELSE IF ModeOf(req) \notin {"folder", "last-save", "clusterio-last-save"}
    THEN {BadRequest("Invalid instances-as " \o ModeOf(req)
                     \o ", valid values: folder, last-save, clusterio-last-save")}
    ELSE IF OrElse(req.path, "/") \notin DOMAIN tree THEN {NotFound}
    ELSE IF req.format = {} \/ Get(req.format) \notin {"zip", "tar"}
    THEN {BadRequest("Invalid format " \o Shown(req.format)
                     \o ", valid values: zip, tar")}
    ELSE {}

\* The status the request is refused with, 0 if it is not.
ListingRefusal(req) == IF ListingError(req) = {} THEN 0 ELSE Get(ListingError(req)).code
PackerRefusal(req) == IF PackerError(req) = {} THEN 0 ELSE Get(PackerError(req)).code

\* The handler throws before any file is walked, or walkFiles(node, transform)
\* is set to run from the node asked for.
Handle(req, thrown) ==
    /\ rReq' = req
    /\ err' = thrown
    /\ IF thrown # {}
       THEN /\ rPc' = "rejected" /\ rStatus' = Get(thrown).code
            /\ wStack' = wStack
       ELSE /\ rPc' = "walking" /\ rStatus' = 0
            /\ wStack' = <<TreeRef(OrElse(req.path, "/"))>>
    /\ UNCHANGED <<wVisited, wOut>>
    /\ UNCHANGED <<res, vPc, vLength, vRead, vLeft, vOpen>>
    /\ UNCHANGED <<hvars, cvars, zvars, tvars, bvars>>

\* A GET on /files arrives at the listening server.
FileListingGet ==
    /\ listening /\ rPc = "idle"
    /\ \E req \in ListingRequests : \E thrown \in {ListingError(req)} :
          Handle(req, thrown)

\* A GET on /pack arrives at the listening server.
PackerGet ==
    /\ listening /\ rPc = "idle"
    /\ \E req \in PackRequests : \E thrown \in {PackerError(req)} :
          Handle(req, thrown)

Reverse(seq) == SubSeq([i \in 1..Len(seq) |-> seq[Len(seq) + 1 - i]], 1, Len(seq))

\* A mutant of Current: the node is used as popped, the transform forgotten.
Current_untransformed(req, popped) == Returned(popped)

\* const current = transform(stack.pop());
Current(req, popped) == nodeTransform(ModeOf(req), fileFilterFromUrl(req), popped)

\* A mutant of Pushed: the children are pushed in their stored order.
Pushed_unreversed(current) == EntriesOf(current)

\* [...current.entries.values()].toReversed()
Pushed(current) == Reverse(EntriesOf(current))

\* One turn of the loop of walkFiles.
WalkStep ==
    /\ rPc = "walking" /\ wStack # <<>>
    /\ \E popped \in {wStack[Len(wStack)]} :
         /\ wVisited' = Append(wVisited, popped)
         /\ \E current \in {Current(rReq, popped)} :
              IF current.t = "throw"
              THEN /\ rPc' = "threw" /\ rStatus' = 500
                   /\ err' = {OtherError(current.message)}
                   /\ wStack' = SubSeq(wStack, 1, Len(wStack) - 1)
                   /\ wOut' = wOut
              ELSE /\ rPc' = rPc /\ rStatus' = rStatus
                   /\ err' = err
                   /\ IF current.t = "node"
                         /\ (IsDir(NodeOf(current.ref)) \/ NodeOf(current.ref).kind = "Root")
                      THEN /\ wStack' = SubSeq(wStack, 1, Len(wStack) - 1)
                                           \o Pushed(current.ref)
                           /\ wOut' = wOut
                      ELSE IF current.t = "node" /\ IsFile(NodeOf(current.ref))
                      THEN /\ wStack' = SubSeq(wStack, 1, Len(wStack) - 1)
                           /\ wOut' = Append(wOut, current.ref)
                      ELSE /\ wStack' = SubSeq(wStack, 1, Len(wStack) - 1)
                           /\ wOut' = wOut
    /\ UNCHANGED rReq
    /\ UNCHANGED <<res, vPc, vLength, vRead, vLeft, vOpen>>
    /\ UNCHANGED <<hvars, cvars, zvars, tvars, bvars>>

\* process.env.PUBLIC_URL ?? "", the variable being unset.
PUBLIC_URL == ""

\* [...map(file => PUBLIC_URL + file.path + "\n", files)].join("")
RECURSIVE ListingText(_, _)
ListingText(files, i) ==
    IF i > Len(files) THEN ""
    ELSE PUBLIC_URL \o files[i].path \o "\n" \o ListingText(files, i + 1)

\* The stack is empty: walkFiles returns. FileListing.get then writes the
\* listing; Packer.get goes on to build the archive of the files.
WalkReturn ==
    /\ rPc = "walking" /\ wStack = <<>>
    /\ rPc' = "done"
    /\ res' = IF rReq.endpoint = "/files"
              THEN textResponse(res, 200, ListingText(wOut, 1))
              ELSE res
    /\ UNCHANGED <<rReq, rStatus, wStack, wVisited, wOut>>
    /\ UNCHANGED <<err, vPc, vLength, vRead, vLeft, vOpen>>
    /\ UNCHANGED <<hvars, cvars, zvars, tvars, bvars>>

\* buildTree up to its loop, no request yet.
InitWalk ==
    /\ bPc = "building"
    /\ \E c \in FsChoices : bEntries = SortedEntries(c)
    /\ bIdx = 0
    /\ tree = ("/" :> NewRoot)
    /\ listening = FALSE
    /\ rPc = "idle" /\ rReq = <<>> /\ rStatus = 0
    /\ wStack = <<>> /\ wVisited = <<>> /\ wOut = <<>>
    /\ HeaderIdle
    /\ TarIdle
    /\ ServeIdle

NextWalk ==
    \/ BuildEntry \/ CalculateMeta \/ Listen \/ FileListingGet \/ PackerGet
    \/ WalkStep \/ WalkReturn \/ Catch

SpecWalk == InitWalk /\ [][NextWalk]_vars

\* The server answering listing requests only.
NextListing ==
    \/ BuildEntry \/ CalculateMeta \/ Listen
    \/ FileListingGet \/ WalkStep \/ WalkReturn \/ Catch

\* The loop of walkFiles is synchronous code: once started it runs on until
\* it returns or throws.
FairSpecListing ==
    InitWalk /\ [][NextListing]_vars /\ WF_vars(WalkStep) /\ WF_vars(WalkReturn)

\* The server from the loop of buildTree up to server.listen.
NextBuild == BuildEntry \/ CalculateMeta \/ Listen

SpecBuild == InitWalk /\ [][NextBuild]_vars

----------------------------------------------------------------------------
(* The sort of buildTree: entries.sort by strcmp of entryPath *)

\* entryPath(entry): "/" + entry.path + "/" + entry.name, entry.path being
\* under ROOT_DIR.
entryPath(entry) == "/" \o ROOT_DIR \o entry.path \o "/" \o entry.name

\* The characters of the names modelled, each class in the order the
\* collator's root table gives it: punctuation before digits before letters.
Punctuation == "_-./"
DecimalDigits == "0123456789"
LowerCase == "abcdefghijklmnopqrstuvwxyz"
UpperCase == "ABCDEFGHIJKLMNOPQRSTUVWXYZ"

Contains(str, ch) == \E i \in 1..Len(str) : SubSeq(str, i, i) = ch
IndexIn(str, ch) == CHOOSE i \in 1..Len(str) : SubSeq(str, i, i) = ch

\* The end of the run of digits that starts at i.
RECURSIVE DigitRunEnd(_, _)
DigitRunEnd(s, i) ==
    IF i < Len(s) /\ Contains(DecimalDigits, SubSeq(s, i + 1, i + 1))
    THEN DigitRunEnd(s, i + 1) ELSE i

\* The number the digits s[i..j] spell.
RECURSIVE DecimalValue(_, _, _)
DecimalValue(s, i, j) ==
    IF j < i THEN 0
    ELSE 10 * DecimalValue(s, i, j - 1) + (IndexIn(DecimalDigits, SubSeq(s, j, j)) - 1)

\* The primary collation elements of s from the i-th character on, as
\* <<class, weight>>: { sensitivity: "base" } leaves only the base letter
\* (the case is dropped), { numeric: true } makes a run of digits one element
\* with the number it spells as weight.
RECURSIVE CollationElements(_, _)
CollationElements(s, i) ==
    IF i > Len(s) THEN <<>>
    ELSE LET ch == SubSeq(s, i, i)
         IN  IF Contains(DecimalDigits, ch)
             THEN <<<<2, DecimalValue(s, i, DigitRunEnd(s, i))>>>>
                  \o CollationElements(s, DigitRunEnd(s, i) + 1)
             ELSE <<IF Contains(LowerCase, ch) THEN <<3, IndexIn(LowerCase, ch)>>
                    ELSE IF Contains(UpperCase, ch) THEN <<3, IndexIn(UpperCase, ch)>>
                    ELSE <<1, IndexIn(Punctuation, ch)>>>>
                  \o CollationElements(s, i + 1)

\* Two sequences of collation elements compared from the i-th on: negative,
\* zero or positive; the shorter is first when it begins the longer.
RECURSIVE CompareElements(_, _, _)
CompareElements(a, b, i) ==
    IF i > Len(a) /\ i > Len(b) THEN 0
    ELSE IF i > Len(a) THEN 0 - 1
    ELSE IF i > Len(b) THEN 1
    ELSE IF a[i][1] # b[i][1] THEN a[i][1] - b[i][1]
    ELSE IF a[i][2] # b[i][2] THEN a[i][2] - b[i][2]
    ELSE CompareElements(a, b, i + 1)

\* A mutant of strcmp: the comparison is turned around.
strcmp_descending(a, b) ==
    CompareElements(CollationElements(b, 1), CollationElements(a, 1), 1)

\* const strcmp = new Intl.Collator(undefined, { numeric: true, sensitivity:
\* "base" }).compare
strcmp(a, b) ==
    CompareElements(CollationElements(a, 1), CollationElements(b, 1), 1)

\* Array.prototype.sort is stable: e goes behind the entries of the sorted
\* sequence that do not compare above it.
InsertEntry(sorted, e) ==
    LET n == Cardinality({j \in 1..Len(sorted) :
                            strcmp(entryPath(sorted[j]), entryPath(e)) <= 0})
    IN  SubSeq(sorted, 1, n) \o <<e>> \o SubSeq(sorted, n + 1, Len(sorted))

\* entries.sort((a, b) => strcmp(entryPath(a), entryPath(b)))
RECURSIVE SortFrom(_, _, _)
SortFrom(entries, i, sorted) ==
    IF i > Len(entries) THEN sorted
    ELSE SortFrom(entries, i + 1, InsertEntry(sorted, entries[i]))

sort(entries) == SortFrom(entries, 1, <<>>)

\* The entries from the k-th on, then those before it.
Rotate(seq, k) == SubSeq(seq, k + 1, Len(seq)) \o SubSeq(seq, 1, k)

\* Orders fs.readdir may list the entries of a filesystem in: no order is
\* promised.
ReaddirOrders(c) ==
    UNION {{Rotate(SortedEntries(c), k), Reverse(Rotate(SortedEntries(c), k))} :
             k \in 0..(Len(SortedEntries(c)) - 1)}

\* The filesystems whose entries are sorted: nested directories with saves
\* and a second instance, a save whose name is no date, a file without MIME
\* type beside an instance without descriptor, and one without saves.
OrderChoices ==
    {[saves |-> {1, 2}, savesDir |-> TRUE, unpacked |-> TRUE, world |-> FALSE,
      i2 |-> "saves", readme |-> FALSE],
     [saves |-> {1}, savesDir |-> TRUE, unpacked |-> FALSE, world |-> TRUE,
      i2 |-> "absent", readme |-> FALSE],
     [saves |-> {1}, savesDir |-> TRUE, unpacked |-> FALSE, world |-> FALSE,
      i2 |-> "undescribed", readme |-> TRUE],
     [saves |-> {}, savesDir |-> FALSE, unpacked |-> FALSE, world |-> FALSE,
      i2 |-> "absent", readme |-> FALSE]}

\* buildTree after fs.readdir has answered: the Root is in the Tree, the
\* entries are as listed.
InitOrder ==
    /\ bPc = "listed"
    /\ \E c \in OrderChoices : bEntries \in ReaddirOrders(c)
    /\ bIdx = 0
    /\ tree = ("/" :> NewRoot)
    /\ listening = FALSE
    /\ WalkIdle
    /\ HeaderIdle
    /\ TarIdle
    /\ ServeIdle

\* entries.sort(...)
SortEntries ==
    /\ bPc = "listed"
    /\ bEntries' = sort(bEntries)
    /\ bPc' = "building"
    /\ UNCHANGED <<bIdx, tree, listening>>
    /\ UNCHANGED <<hvars, cvars, zvars, tvars, wvars, svars>>

NextOrder == SortEntries \/ BuildEntry \/ CalculateMeta \/ Listen

SpecOrder == InitOrder /\ [][NextOrder]_vars

----------------------------------------------------------------------------
(* Pages and raw file delivery: handleGet past the resources *)

\* The pathnames of the GET requests that name no resource.
RawPaths ==
    {"/", "/docs/", "/a.txt", "/docs/b.txt",
     "/instances/i1/saves/" \o SaveName(2), "/missing.txt"}

\* A request for a pathname, carrying no query.
Plain(pathname) ==
    [endpoint |-> pathname, path |-> {}, format |-> {}, instancesAs |-> {},
     createdBefore |-> {}, modifiedAfter |-> {}]

\* htmlDocument(prettify(node.toHTML())), by the node it is the page of.
PageOf(path) == "<!DOCTYPE html>" \o path

\* A mutant of TooLong: the running total is never found too large.
TooLong_never(read, sourceLength) == FALSE

\* if (read > sourceLength) throw ...
TooLong(read, sourceLength) == read > sourceLength

\* if (read < sourceLength) throw ...
TooShort(read, sourceLength) == read < sourceLength

\* A mutant of Refreshed: the node's totalSize follows the new size too.
Refreshed_withTotal(t, pathname, size) ==
    [t EXCEPT ![pathname].stat = {[Get(@) EXCEPT !.size = size]},
              ![pathname].totalSize = size]

\* node.stat = await fh.stat(): the Tree with the File's stat replaced by one
\* of the size the file now has on disk.
Refreshed(t, pathname, size) ==
    [t EXCEPT ![pathname].stat = {[Get(@) EXCEPT !.size = size]}]

\* handleGet for a pathname that is no resource: NotFound, the page of a
\* container, or a File opened, its stat refreshed, the headers written and
\* the pipeline through validateLength started. fs.open may fail; the file
\* may hold another number of bytes than at the scan, and its stream may in
\* the end yield another number than fh.stat() said.
PageOrFileGet ==
    /\ listening /\ rPc = "idle"
    /\ \E pathname \in RawPaths :
         /\ rReq' = Plain(pathname)
         /\ IF pathname \notin DOMAIN tree
            THEN /\ err' = {NotFound}
                 /\ rPc' = "rejected" /\ rStatus' = 404
                 /\ UNCHANGED <<res, tree, vPc, vLength, vRead, vLeft, vOpen>>
            ELSE IF IsContainer(tree[pathname])
            THEN /\ res' = textResponse(res, 200, PageOf(pathname))
                 /\ rPc' = "served" /\ rStatus' = rStatus
                 /\ UNCHANGED <<err, tree, vPc, vLength, vRead, vLeft, vOpen>>
            ELSE \/ /\ err' = {OtherError("ENOENT: no such file or directory, open '"
                                          \o tree[pathname].realPath \o "'")}
                    /\ rPc' = "openFailed" /\ rStatus' = 500
                    /\ UNCHANGED <<res, tree, vPc, vLength, vRead, vLeft, vOpen>>
                 \/ \E size \in DiskSizes(Get(tree[pathname].stat).size) :
                    \E yielded \in DiskSizes(size) :
                       /\ tree' = Refreshed(tree, pathname, size)
                       /\ res' = writeHead(res, 200, size)
                       /\ vPc' = "relaying" /\ vLength' = size
                       /\ vRead' = 0 /\ vLeft' = yielded /\ vOpen' = TRUE
                       /\ rPc' = "raw" /\ rStatus' = rStatus
                       /\ err' = err
    /\ UNCHANGED <<wStack, wVisited, wOut, bPc, bEntries, bIdx, listening>>
    /\ UNCHANGED <<hvars, cvars, zvars, tvars>>

\* validateLength: the source yields a chunk, which is counted and passed on
\* unless it takes the count over sourceLength.
RelayChunk ==
    /\ vPc = "relaying" /\ vLeft > 0
    /\ \E n \in {IF vLeft < ChunkMax THEN vLeft ELSE ChunkMax} :
         /\ vRead' = vRead + n
         /\ vLeft' = vLeft - n
         /\ IF TooLong(vRead + n, vLength)
            THEN /\ vPc' = "tooLong"
                 /\ err' = {OtherError("Stream too long expected " \o ToString(vLength)
                                       \o " bytes got " \o ToString(vRead + n))}
                 /\ res' = res
            ELSE /\ vPc' = vPc /\ err' = err
                 /\ res' = writeChunk(res, n)
    /\ UNCHANGED <<vLength, vOpen>>
    /\ UNCHANGED <<hvars, cvars, zvars, tvars, bvars, wvars>>

\* validateLength: the source has ended, with too few bytes or with all.
RelayEnd ==
    /\ vPc = "relaying" /\ vLeft = 0
    /\ IF TooShort(vRead, vLength)
       THEN /\ vPc' = "tooShort"
            /\ err' = {OtherError("Stream too short expected " \o ToString(vLength)
                                  \o " bytes got " \o ToString(vRead))}
       ELSE /\ vPc' = "done" /\ err' = err
    /\ vOpen' = FALSE
    /\ UNCHANGED <<res, vLength, vRead, vLeft>>
    /\ UNCHANGED <<hvars, cvars, zvars, tvars, bvars, wvars>>

\* The file's read stream fails: the pipeline rejects with its error.
ReadError ==
    /\ vPc = "relaying"
    /\ vPc' = "readError"
    /\ err' = {OtherError("EIO: i/o error, read")}
    /\ UNCHANGED <<res, vLength, vRead, vLeft, vOpen>>
    /\ UNCHANGED <<hvars, cvars, zvars, tvars, bvars, wvars>>

\* The client closes the connection while stream.pipeline is writing the
\* file to the response: the pipeline rejects with a premature close and
\* nothing more is read.
RawClientClose ==
    /\ res.state = "open" /\ headersSent(res) /\ err = {}
    /\ vPc = "relaying"
    /\ vPc' = "closed"
    /\ err' = {OtherError("Premature close")}
    /\ UNCHANGED <<res, vLength, vRead, vLeft, vOpen>>
    /\ UNCHANGED <<hvars, cvars, zvars, tvars, bvars, wvars>>

\* handleGet: the pipeline has resolved; res.end().
RawEnd ==
    /\ vPc = "done" /\ res.state = "open"
    /\ res' = endResponse(res)
    /\ UNCHANGED <<err, vPc, vLength, vRead, vLeft, vOpen>>
    /\ UNCHANGED <<hvars, cvars, zvars, tvars, bvars, wvars>>

\* The "type" member toJSON gives a node of each class.
JsonType(node) ==
    CASE node.kind = "Root" -> "root"
      [] node.kind = "Instance" -> "instance"
      [] node.kind = "Save" -> "save"
      [] node.kind = "File" -> "file"
      [] OTHER -> "dir"

\* JSON.stringify(node, undefined, "\t") as far as the type and name members
\* of the node itself; the other members and the entries are left out.
MetaText(node) ==
    IF node.kind = "Root" THEN "{type:root}"
    ELSE "{type:" \o JsonType(node) \o ",name:" \o node.name \o "}"

\* Metadata.get: a GET on /meta, answered with the JSON of the node under path
\* or refused with NotFound.
MetadataGet ==
    /\ listening /\ rPc = "idle"
    /\ \E path \in Paths :
         /\ rReq' = [Plain("/meta") EXCEPT !.path = path]
         /\ IF OrElse(path, "/") \notin DOMAIN tree
            THEN /\ err' = {NotFound}
                 /\ rPc' = "rejected" /\ rStatus' = 404
                 /\ res' = res
            ELSE /\ res' = textResponse(res, 200, MetaText(tree[OrElse(path, "/")]))
                 /\ rPc' = "served" /\ rStatus' = rStatus
                 /\ err' = err
    /\ UNCHANGED <<vPc, vLength, vRead, vLeft, vOpen, wStack, wVisited, wOut>>
    /\ UNCHANGED <<hvars, cvars, zvars, tvars, bvars>>

\* The server: the scan, and one GET request handled to its end.
NextServer ==
    \/ NextWalk
    \/ MetadataGet \/ RawClientClose \/ PipelineDestroy
    \/ PageOrFileGet \/ RelayChunk \/ RelayEnd \/ ReadError \/ RawEnd

SpecServer == InitWalk /\ [][NextServer]_vars

----------------------------------------------------------------------------
(* Requests in flight together: raw deliveries of one File, and a download *)

\* The requests in flight for the File.
Requests == {1, 2}

\* The File the requests ask for.
FilePath == "/a.txt"

\* The largest size the File is taken to on disk.
MaxDisk == 3

\* A request that has not reached handleGet.
NewRaw ==
    [pc |-> "idle", res |-> NewResponse, err |-> {}, statSize |-> {},
     length |-> 0, read |-> 0, open |-> FALSE]

RECURSIVE BuildAll(_, _, _)
\* The loop of buildTree from the i-th entry on, no read failing.
BuildAll(t, entries, i) ==
    IF i > Len(entries) THEN t
    ELSE BuildAll(buildEntry(t, entries[i].path \o "/", entries[i],
                             ROOT_DIR \o entries[i].path \o "/" \o entries[i].name),
                  entries, i + 1)

\* buildTree(): the Tree of the sorted entries, its totals calculated.
buildTree(entries) == calculateMeta(BuildAll(("/" :> NewRoot), entries, 1), "/")

\* A filesystem with one instance that has no saves directory.
QuietFs ==
    [saves |-> {}, savesDir |-> FALSE, unpacked |-> FALSE, world |-> FALSE,
     i2 |-> "absent", readme |-> FALSE]

\* The server listening over the Tree of the filesystem of choice c, no raw
\* request and no archive yet.
ServingOver(c) ==
    /\ bEntries = SortedEntries(c) /\ bIdx = Len(bEntries)
    /\ bPc = "built" /\ listening = TRUE
    /\ tree = buildTree(bEntries)
    /\ HeaderIdle
    /\ res = NewResponse /\ err = {}
    /\ vPc = "idle" /\ vLength = 0 /\ vRead = 0 /\ vLeft = 0 /\ vOpen = FALSE
    /\ cs = [i \in Requests |-> NewRaw]
    /\ zip = NoZip
    /\ onDisk = Get(tree[FilePath].stat).size

Serving == ServingOver(QuietFs)

\* A mutant of SizeRead: the size is the one the node had before the refresh.
SizeRead_stale(before, after) == Get(before[FilePath].stat).size

\* node.stat.size as handleGet reads it for Content-Length and for
\* validateLength: in the same turn as "node.stat = await fh.stat()", so from
\* the Tree as the request's own refresh has left it.
SizeRead(before, after) == Get(after[FilePath].stat).size

\* const fh = await fs.open(node.realPath)
CcOpen(i) ==
    /\ listening /\ cs[i].pc = "idle"
    /\ cs' = [cs EXCEPT ![i].pc = "opened", ![i].open = TRUE]
    /\ UNCHANGED <<onDisk, tree>>

\* node.stat = await fh.stat(); res.writeHead(200, ...); validateLength(...):
\* the handle's stat is the size on disk now.
CcStat(i) ==
    /\ cs[i].pc = "opened"
    /\ \E t \in {Refreshed(tree, FilePath, onDisk)} :
         /\ tree' = t
         /\ cs' = [cs EXCEPT ![i].pc = "relaying",
                             ![i].statSize = {onDisk},
                             ![i].res = writeHead(@, 200, SizeRead(tree, t)),
                             ![i].length = SizeRead(tree, t)]
    /\ UNCHANGED onDisk

\* The file stream yields a chunk of what the file holds past the bytes read;
\* validateLength counts it and passes it on or throws.
CcChunk(i) ==
    /\ cs[i].pc = "relaying" /\ cs[i].read < onDisk
    /\ \E n \in {IF onDisk - cs[i].read < ChunkMax
                 THEN onDisk - cs[i].read ELSE ChunkMax} :
         cs' = [cs EXCEPT
                  ![i].read = @ + n,
                  ![i].pc = IF TooLong(cs[i].read + n, cs[i].length)
                            THEN "tooLong" ELSE @,
                  ![i].err = IF TooLong(cs[i].read + n, cs[i].length)
                             THEN {OtherError("Stream too long expected "
                                      \o ToString(cs[i].length) \o " bytes got "
                                      \o ToString(cs[i].read + n))}
                             ELSE @,
                  ![i].res = IF TooLong(cs[i].read + n, cs[i].length)
                             THEN @ ELSE writeChunk(@, n)]
    /\ UNCHANGED <<onDisk, tree>>

\* The file stream has reached the end of the file and closes its handle:
\* validateLength throws, or the pipeline resolves and res.end() is called.
CcEnd(i) ==
    /\ cs[i].pc = "relaying" /\ cs[i].read >= onDisk
    /\ cs' = [cs EXCEPT
                ![i].open = FALSE,
                ![i].pc = IF TooShort(cs[i].read, cs[i].length)
                          THEN "tooShort" ELSE "done",
                ![i].err = IF TooShort(cs[i].read, cs[i].length)
                           THEN {OtherError("Stream too short expected "
                                    \o ToString(cs[i].length) \o " bytes got "
                                    \o ToString(cs[i].read))}
                           ELSE @,
                ![i].res = IF TooShort(cs[i].read, cs[i].length)
                           THEN @ ELSE endResponse(@)]
    /\ UNCHANGED <<onDisk, tree>>

\* The client of request i closes its connection during the delivery.
CcClientClose(i) ==
    /\ cs[i].pc = "relaying"
    /\ cs' = [cs EXCEPT ![i].pc = "closed",
                        ![i].err = {OtherError("Premature close")}]
    /\ UNCHANGED <<onDisk, tree>>

\* The failed pipeline of request i destroys the file stream, which closes
\* the handle.
CcDestroy(i) ==
    /\ cs[i].err # {} /\ cs[i].open
    /\ cs' = [cs EXCEPT ![i].open = FALSE]
    /\ UNCHANGED <<onDisk, tree>>

\* The catch of the request handler, for request i.
CcCatch(i) ==
    /\ cs[i].err # {} /\ cs[i].res.state = "open"
    /\ cs' = [cs EXCEPT ![i].res = Caught(@, Get(cs[i].err))]
    /\ UNCHANGED <<onDisk, tree>>

\* Something else writes to the File: it grows or shrinks by a byte.
DiskChange ==
    /\ \E size \in DiskSizes(onDisk) \ {onDisk} :
         size <= MaxDisk /\ onDisk' = size
    /\ UNCHANGED <<cs, tree>>

\* A step of one of the requests in flight.
RawStep(i) ==
    /\ \/ CcOpen(i) \/ CcStat(i) \/ CcChunk(i) \/ CcEnd(i)
       \/ CcClientClose(i) \/ CcDestroy(i) \/ CcCatch(i)
    /\ UNCHANGED <<bPc, bEntries, bIdx, listening>>
    /\ UNCHANGED <<hvars, zvars, tvars, wvars, svars>>

\* The File changes on disk.
FileWritten ==
    /\ DiskChange
    /\ UNCHANGED <<hvars, zvars, tvars, bvars, wvars, svars>>

InitRace == Serving /\ WalkIdle /\ TarIdle

NextRace == FileWritten \/ \E i \in Requests : RawStep(i)

\* Raw deliveries of one File in flight together while the File is written to.
SpecRace == InitRace /\ [][NextRace]_vars

\* The node a download is asked for, and the files walkFiles yields from it.
DownloadPath == "/docs/"
DownloadFiles == <<"/docs/b.txt", "/docs/saves/" \o SaveName(1)>>

\* path.lastIndexOf("/"), counted from 0.
LastSlash(path) ==
    (CHOOSE i \in 1..Len(path) :
        /\ SubSeq(path, i, i) = "/"
        /\ \A k \in (i + 1)..Len(path) : SubSeq(path, k, k) # "/") - 1

\* nameFn(file) of Packer.get for the node asked for: the file's path from
\* after the last "/" of the node's path, or of its own if that comes first.
nameFn(nodePath, filePath) ==
    SubSeq(filePath,
           Min({LastSlash(nodePath) + 1, LastSlash(filePath) + 1}) + 1,
           Len(filePath))

\* The record addFile writes for the k-th file, its metadataPath given as
\* length and 0-based places of "/".
FileRecord(t, k, path) ==
    [type |-> "file", id |-> k, size |-> Get(t[path].stat).size,
     name |-> [len |-> Len(nameFn(DownloadPath, path)),
               slashes |-> {i - 1 : i \in {j \in 1..Len(nameFn(DownloadPath, path)) :
                                              SubSeq(nameFn(DownloadPath, path), j, j) = "/"}}]]

\* createTarStream(files, nameFn): the records written, the "end" record
\* last, and the logical records counted.
createTarStream(t, files) ==
    [records |-> [k \in 1..Len(files) |-> FileRecord(t, k, files[k])]
                 \o <<[type |-> "end", id |-> 0, size |-> 0,
                       name |-> [len |-> 0, slashes |-> {}]]>>,
     logical |-> SumRange([k \in 1..Len(files) |->
                              LogicalRecordsOf(Get(t[files[k]].stat).size)],
                          1, Len(files)) + 2]

\* Packer.get for /pack?format=tar&path=/docs/ has walked and has its tar
\* stream from createTarStream, while raw requests for the File may arrive.
InitClose ==
    /\ Serving
    /\ rPc = "done" /\ rStatus = 0
    /\ rReq = [endpoint |-> "/pack", path |-> {DownloadPath}, format |-> {"tar"},
               instancesAs |-> {}, createdBefore |-> {}, modifiedAfter |-> {}]
    /\ wStack = <<>>
    /\ wVisited = <<TreeRef("/docs/"), TreeRef("/docs/b.txt"), TreeRef("/docs/saves/"),
                    TreeRef("/docs/saves/" \o SaveName(1))>>
    /\ wOut = [k \in 1..Len(DownloadFiles) |-> TreeRef(DownloadFiles[k])]
    /\ \E tar \in {createTarStream(buildTree(SortedEntries(QuietFs)), DownloadFiles)} :
         /\ tRecords = tar.records
         /\ tLogical = tar.logical
         /\ tLength = tar.logical * 512
    /\ tPc = "ended"
    /\ gPc = "next" /\ gIdx = 0 /\ gLeft = 0 /\ tFaithful = TRUE /\ tOut = <<>>
    /\ tBuf = <<>> /\ gOpen = {}

NextClose ==
    \/ Pipe \/ GenHeader \/ GenOpen \/ GenContent \/ GenPadding \/ GenEnd
    \/ Deliver \/ PackerEnd \/ ArchiveClientClose \/ PipelineDestroy \/ Catch
    \/ RawStep(1)

\* A download and a raw delivery in flight together. A pipeline that has
\* failed destroys its streams without waiting for anything.
FairSpecClose ==
    /\ InitClose /\ [][NextClose]_vars
    /\ WF_vars(PipelineDestroy)
    /\ WF_vars(RawStep(1) /\ CcDestroy(1))

----------------------------------------------------------------------------
(* createZipStream and the zip branch of Packer.get *)

\* The filesystem the ZIP downloads are taken from: two instances with saves.
ZipFs ==
    [saves |-> {1, 2}, savesDir |-> TRUE, unpacked |-> FALSE, world |-> FALSE,
     i2 |-> "saves", readme |-> FALSE]

\* The GET requests on /pack that ask for a ZIP.
ZipRequests ==
    [endpoint : {"/pack"}, path : Paths, format : {{"zip"}},
     instancesAs : Params({"last-save"}),
     createdBefore : Params({"2024-02-15T00:00"}), modifiedAfter : {{}}]

\* file.path of a file the walker yields: a node made up by a transform derives
\* it from its parent like any other.
RefPath(ref) == IF ref.syn = <<>> THEN ref.path ELSE PathOf(tree, ref.syn[1])

\* A mutant of ZipOptions: the entry is left to yazl's default, deflated.
ZipOptions_default == [compress |-> TRUE]

\* { compress: false }
ZipOptions == [compress |-> FALSE]

\* What zipFile.addFile(file.realPath, nameFn(file), { compress: false })
\* registers; yazl takes the size from its own stat of realPath.
ZipEntry(nodePath, ref) ==
    [realPath |-> NodeOf(ref).realPath,
     metadataPath |-> nameFn(nodePath, RefPath(ref)),
     compress |-> ZipOptions.compress,
     size |-> Get(NodeOf(ref).stat).size]

\* The bytes yazl writes for a stored entry: local file header, name, data and
\* data descriptor.
LocalBytes(entry) == 30 + Len(entry.metadataPath) + entry.size + 16

RECURSIVE ZipFinalSize(_, _)
\* The final size yazl computes once every entry is known: the local parts,
\* the central directory records and the end of central directory record; -1
\* when an entry is compressed.
ZipFinalSize(entries, i) ==
    IF \E k \in 1..Len(entries) : entries[k].compress THEN 0 - 1
    ELSE IF i > Len(entries) THEN 22
    ELSE LocalBytes(entries[i]) + 46 + Len(entries[i].metadataPath)
         + ZipFinalSize(entries, i + 1)

\* The server listening over the Tree of ZipFs, no request yet.
InitZip == ServingOver(ZipFs) /\ WalkIdle /\ TarIdle

\* Packer.get of a request for a ZIP, up to walkFiles(node, nodeTransform).
ZipGet ==
    /\ listening /\ rPc = "idle"
    /\ \E req \in ZipRequests : \E thrown \in {PackerError(req)} :
          Handle(req, thrown)

\* One turn of the loop of createZipStream: the next file of the walker is
\* registered.
ZipAddFile ==
    /\ rPc \in {"walking", "done"} /\ rReq.format = {"zip"} /\ zip.pc = "idle"
    /\ Len(zip.entries) < Len(wOut)
    /\ zip' = [zip EXCEPT !.entries =
                  Append(@, ZipEntry(OrElse(rReq.path, "/"), wOut[Len(@) + 1]))]
    /\ UNCHANGED <<res, err, vPc, vLength, vRead, vLeft, vOpen>>
    /\ UNCHANGED <<hvars, cvars, tvars, bvars, wvars>>

\* zipFile.end(undefined, resolve) after the loop, and the final size yazl
\* calls back with.
ZipEnd ==
    /\ rPc = "done" /\ rReq.format = {"zip"} /\ zip.pc = "idle"
    /\ Len(zip.entries) = Len(wOut)
    /\ zip' = [zip EXCEPT !.pc = "ended", !.length = {ZipFinalSize(zip.entries, 1)}]
    /\ UNCHANGED <<res, err, vPc, vLength, vRead, vLeft, vOpen>>
    /\ UNCHANGED <<hvars, cvars, tvars, bvars, wvars>>

\* res.writeHead(200, {"Content-Length": `${zipLength}`, ...}) and
\* stream.pipeline(zipStream, res, { end: false }).
ZipPipe ==
    /\ zip.pc = "ended"
    /\ zip' = [zip EXCEPT !.pc = "piped", !.next = 1]
    /\ res' = writeHead(res, 200, Get(zip.length))
    /\ UNCHANGED <<err, vPc, vLength, vRead, vLeft, vOpen>>
    /\ UNCHANGED <<hvars, cvars, tvars, bvars, wvars>>

\* The bytes of the next entry reach the response, or reading its file fails.
ZipChunk ==
    /\ zip.pc = "piped" /\ err = {} /\ zip.next <= Len(zip.entries)
    /\ \/ /\ res' = writeChunk(res, LocalBytes(zip.entries[zip.next]))
          /\ zip' = [zip EXCEPT !.next = @ + 1]
          /\ err' = err
       \/ /\ zip' = [zip EXCEPT !.pc = "failed"]
          /\ err' = {OtherError("file data stream has unexpected number of bytes")}
          /\ res' = res
    /\ UNCHANGED <<vPc, vLength, vRead, vLeft, vOpen>>
    /\ UNCHANGED <<hvars, cvars, tvars, bvars, wvars>>

\* The central directory reaches the response and the pipeline resolves:
\* res.end().
ZipDone ==
    /\ zip.pc = "piped" /\ err = {} /\ zip.next = Len(zip.entries) + 1
    /\ zip' = [zip EXCEPT !.pc = "done"]
    /\ res' = endResponse(writeChunk(res,
                 ZipFinalSize(zip.entries, 1)
                 - SumRange([k \in 1..Len(zip.entries) |-> LocalBytes(zip.entries[k])],
                            1, Len(zip.entries))))
    /\ UNCHANGED <<err, vPc, vLength, vRead, vLeft, vOpen>>
    /\ UNCHANGED <<hvars, cvars, tvars, bvars, wvars>>

NextZip ==
    \/ ZipGet \/ WalkStep \/ WalkReturn \/ ZipAddFile \/ ZipEnd \/ ZipPipe
    \/ ZipChunk \/ ZipDone \/ Catch

SpecZip == InitZip /\ [][NextZip]_vars

----------------------------------------------------------------------------
(* SpecHeader: one header, encoded once *)

\* Lengths of the names tried, around the 100, 155 and 256 byte limits.
NameLens == {1, 99, 100, 101, 102, 140, 156, 157, 200, 255, 256, 257, 258}

\* Places a '/' is tried at in a name of len bytes.
SlashPlaces(len) ==
    {0, 1, 120, 154, 155, 156, len - 102, len - 101, len - 100, len - 99, len - 1}
        \cap (0..(len - 1))

InitHeader ==
    /\ \E len \in NameLens :
         \E slashes \in {S \in SUBSET SlashPlaces(len) : Cardinality(S) <= MaxSlashes} :
            hName = NameBytes(len, slashes)
    /\ hSize \in {0, 1025}
    /\ hMtime \in {0, 1700000000}
    /\ hPc = "new"
    /\ hSplit = <<>>
    /\ hBuf = <<>>
    /\ TarIdle
    /\ TreeIdle
    /\ WalkIdle
    /\ ServeIdle

\* UstarHeader.splitName(name) called on its own.
SplitName ==
    /\ hPc = "new"
    /\ \E r \in {splitName(hName)} :
           /\ hPc' = IF r.ok THEN "split" ELSE "splitErr"
           /\ hSplit' = IF r.ok THEN <<r.name, r.prefix>> ELSE <<>>
    /\ UNCHANGED <<hName, hSize, hMtime, hBuf>>
    /\ UNCHANGED <<tvars, bvars, wvars, svars, cvars, zvars>>

\* header.toBuffer()
ToBuffer ==
    /\ hPc = "new"
    /\ \E r \in {toBuffer(hName, hSize, hMtime)} :
           /\ hPc' = IF r.ok THEN "built" ELSE "buildErr"
           /\ hBuf' = r.buf
    /\ UNCHANGED <<hName, hSize, hMtime, hSplit>>
    /\ UNCHANGED <<tvars, bvars, wvars, svars, cvars, zvars>>

NextHeader == SplitName \/ ToBuffer

SpecHeader == InitHeader /\ [][NextHeader]_vars

----------------------------------------------------------------------------
(* Properties of the TAR stream *)

\* ceil(a / b) for a >= 0, from its definition: the least k with k * b >= a.
CeilDiv(a, b) == CHOOSE k \in 0..a : k * b >= a /\ (k - 1) * b < a

\* The "file" records registered so far, in registration order.
FileRecords == SelectSeq(tRecords, LAMBDA r : r.type = "file")

RECURSIVE SumRecordsOf(_, _)
\* Sum over the file records from the i-th on of (1 + ceil(size / 512)).
SumRecordsOf(files, i) ==
    IF i > Len(files) THEN 0
    ELSE 1 + CeilDiv(files[i].size, 512) + SumRecordsOf(files, i + 1)

RECURSIVE BytesOf(_, _, _, _)
\* Bytes of the chunks of out, from the i-th on, of the given kind and record
\* (kind "any": of every chunk).
BytesOf(out, i, kind, rec) ==
    IF i > Len(out) THEN 0
    ELSE (IF kind = "any" \/ (out[i].kind = kind /\ out[i].rec = rec)
          THEN out[i].len ELSE 0) + BytesOf(out, i + 1, kind, rec)

\* C1: after any sequence of addFile calls with sizes s1..sn (n >= 0), end()
\* returns 512 * (2 + sum of (1 + ceil(si / 512))), and it has returned it
\* before the output stream has yielded a single chunk.
C1_TarLengthClosedForm ==
    /\ tPc = "ended" => (tOut = <<>> /\ gIdx = 0)
    /\ tPc \in {"ended", "piped"} =>
          \E files \in {FileRecords} :
             tLength = 512 * (2 + SumRecordsOf(files, 1))

\* C1 witness: end() has returned for two files, one of 513 bytes and an empty
\* one, and nothing has been read from the stream.
C1_Witness ==
    /\ tPc = "ended" /\ Len(tRecords) = 3
    /\ tRecords[1].size = 513 /\ tRecords[2].size = 0
    /\ tLength = 3072

\* C2: when every file read held exactly its registered size and the stream
\* has run to its end, the bytes emitted equal the length end() returned: 512
\* header bytes, size content bytes and (512 - size mod 512) mod 512 padding
\* bytes per entry, and 1024 trailing bytes.
C2_TarBytesEqualLength ==
    (gPc = "done" /\ tFaithful) =>
        \E files \in {FileRecords} :
            /\ BytesOf(tOut, 1, "any", 0) = tLength
            /\ \A i \in 1..Len(files) :
                 /\ BytesOf(tOut, 1, "header", files[i].id) = 512
                 /\ BytesOf(tOut, 1, "content", files[i].id) = files[i].size
                 /\ BytesOf(tOut, 1, "padding", files[i].id)
                        = (512 - (files[i].size % 512)) % 512
            /\ BytesOf(tOut, 1, "end", 0) = 1024

\* C2 witness: a finished, faithful stream of a 512-byte and a 513-byte file.
C2_Witness ==
    /\ gPc = "done" /\ tFaithful /\ Len(tRecords) = 3
    /\ tRecords[1].size = 512 /\ tRecords[2].size = 513
    /\ BytesOf(tOut, 1, "any", 0) = 3584

\* Whether chunk cur may directly follow chunk prev, nfiles files being registered.
MayFollow(prev, cur, nfiles) ==
    LET nextEntry == \/ cur.kind = "header" /\ cur.rec = prev.rec + 1
                     \/ cur.kind = "end" /\ prev.rec = nfiles
    IN  IF prev.kind = "header"
        THEN (cur.kind \in {"content", "padding"} /\ cur.rec = prev.rec) \/ nextEntry
        ELSE IF prev.kind = "content"
        THEN (cur.kind \in {"content", "padding"} /\ cur.rec = prev.rec) \/ nextEntry
        ELSE IF prev.kind = "padding" THEN nextEntry
        ELSE FALSE

\* C3: the stream yields, for every registered file in registration order, its
\* 512-byte header, then its content, then its padding, entries never
\* interleaved; the 1024 zero bytes of the end records come once, after the
\* last entry, and nothing follows them.
C3_TarOrder ==
    \E nfiles \in {Len(FileRecords)} :
        /\ tOut # <<>> =>
              \/ tOut[1].kind = "header" /\ tOut[1].rec = 1
              \/ tOut[1].kind = "end" /\ nfiles = 0
        /\ \A i \in 1..(Len(tOut) - 1) : MayFollow(tOut[i], tOut[i + 1], nfiles)
        /\ \A i \in 1..Len(tOut) :
              /\ tOut[i].kind = "header" => tOut[i].len = 512
              /\ tOut[i].kind = "end" => (tOut[i].len = 1024 /\ i = Len(tOut))
        /\ gPc = "done" =>
              /\ tOut # <<>> /\ tOut[Len(tOut)].kind = "end"
              /\ \A k \in 1..nfiles :
                    Cardinality({i \in 1..Len(tOut) :
                        tOut[i].kind = "header" /\ tOut[i].rec = k}) = 1

\* C3 witness: a finished stream of two files, each with content and padding.
C3_Witness ==
    /\ gPc = "done" /\ Len(tOut) = 7
    /\ tOut[2].kind = "content" /\ tOut[3].kind = "padding"
    /\ tOut[5].kind = "content" /\ tOut[6].kind = "padding"

----------------------------------------------------------------------------
(* Properties of the header encoder *)

\* The '/' bytes of name at which it can be split: prefix of at most 155
\* bytes before, name of at most 100 bytes after.
SplitPoints(name) ==
    {i \in 0..(Len(name) - 1) :
        name[i + 1] = Slash /\ i <= 155 /\ Len(name) - i - 1 <= 100}

\* C4: splitName returns (p, empty) for a path of at most 100 bytes; for a
\* longer path with a split point it returns name and prefix within their
\* limits with prefix + "/" + name = p; it fails only without a split point.
C4_SplitNameAsClaimed ==
    hPc \in {"split", "splitErr"} =>
        /\ Len(hName) <= 100 => (hPc = "split" /\ hSplit = <<hName, <<>>>>)
        /\ (Len(hName) > 100 /\ SplitPoints(hName) # {}) =>
              /\ hPc = "split"
              /\ Len(hSplit[1]) <= 100
              /\ Len(hSplit[2]) <= 155
              /\ hSplit[2] \o <<Slash>> \o hSplit[1] = hName
        /\ hPc = "splitErr" => (Len(hName) > 100 /\ SplitPoints(hName) = {})

RECURSIVE OctalValue(_, _)
\* The number the first n bytes of digits spell in octal.
OctalValue(digits, n) ==
    IF n = 0 THEN 0 ELSE 8 * OctalValue(digits, n - 1) + (digits[n] - Digit0)

\* C5: the checksum field of every header toBuffer produces holds, as seven
\* octal digits and a NUL, the sum of the 512 bytes with the field itself
\* counted as eight spaces; the checksum never fails to fit its field.
C5_Checksum ==
    /\ hPc = "built" =>
          /\ Len(hBuf) = 512
          /\ hBuf[156] = 0
          /\ \A k \in 149..155 : hBuf[k] \in Digit0..(Digit0 + 7)
          /\ OctalValue(SubSeq(hBuf, 149, 155), 7)
                = SumRange(hBuf, 1, 148) + 8 * Space + SumRange(hBuf, 157, 512)
    /\ hPc = "buildErr" => ~splitName(hName).ok

\* C5 witness: a header built for a name that uses the prefix field.
C5_Witness ==
    /\ hPc = "built" /\ Len(hName) = 140 /\ hSize = 1025
    /\ hBuf[346] = 97

----------------------------------------------------------------------------
(* Claims about walkFiles, the date filter and the instance transforms *)

Range(seq) == {seq[i] : i \in 1..Len(seq)}

\* The request's transform as nodeTransformFromUrl builds it.
TransformOf(ref) == nodeTransform(ModeOf(rReq), fileFilterFromUrl(rReq), ref)

\* A request whose transform hands every node back unchanged.
IdentityRequest ==
    /\ ModeOf(rReq) = "folder"
    /\ rReq.createdBefore = {} /\ rReq.modifiedAfter = {}

\* The File-like leaves below a node of the Tree, in pre-order, children in
\* their stored order.
RECURSIVE PreOrder(_), PreOrderFrom(_, _)
PreOrder(path) ==
    IF IsFile(tree[path]) THEN <<TreeRef(path)>>
    ELSE PreOrderFrom(tree[path].entries, 1)
PreOrderFrom(e, i) ==
    IF i > Len(e) THEN <<>> ELSE PreOrder(e[i]) \o PreOrderFrom(e, i + 1)

\* The keys of the nodes strictly below a node of the Tree.
RECURSIVE Descendants(_)
Descendants(path) ==
    UNION {{c} \cup Descendants(c) : c \in Range(tree[path].entries)}

Walked == rPc \in {"walking", "done", "threw"}

\* C6 (safety part): when walkFiles with the identity transform has returned,
\* it has yielded exactly the File-like leaves below the start node, each
\* once, in pre-order with children in stored order, and no container.
C6_Yielded ==
    (rPc = "done" /\ IdentityRequest) =>
        /\ wOut = PreOrder(OrElse(rReq.path, "/"))
        /\ \A i \in 1..Len(wOut) : IsFile(NodeOf(wOut[i]))
        /\ \A i, j \in 1..Len(wOut) : wOut[i] = wOut[j] => i = j

\* C6: walkFiles(node, identity) terminates, having yielded exactly the
\* File-like leaves of the subtree of node, each once, in pre-order
\* depth-first order, children in stored order, and never a container.
C6_WalkIdentity ==
    /\ [](C6_Yielded)
    /\ ((rPc = "walking" /\ IdentityRequest) ~> (rPc = "done"))

\* An identity walk from the root over nested containers has returned its
\* nine files.
C6_Witness ==
    /\ rPc = "done" /\ IdentityRequest
    /\ OrElse(rReq.path, "/") = "/"
    /\ Len(wOut) = 9
    /\ \E i \in 1..Len(wVisited) : NodeOf(wVisited[i]).kind = "SavesDir"


\* C7: the transform is applied once to every visited node; a node it returns
\* nothing for is not yielded and nothing below it is visited or yielded; a
\* substitute it returns is what is yielded (a file) or walked (a container).
C7_TransformGoverns ==
    Walked =>
    \A i \in 1..Len(wVisited) :
        \E v \in {wVisited[i]} : \E r \in {TransformOf(wVisited[i])} :
        /\ \A j \in 1..Len(wVisited) : wVisited[j] = v => j = i
        /\ r.t = "undefined" =>
              /\ v \notin Range(wOut)
              /\ v.syn = <<>> =>
                    \A d \in Descendants(v.path) :
                        TreeRef(d) \notin Range(wVisited) \cup Range(wOut)
        /\ (r.t = "node" /\ IsFile(NodeOf(r.ref))) =>
              /\ \E j \in 1..Len(wOut) : wOut[j] = r.ref
              /\ r.ref # v => v \notin Range(wOut)
        /\ (r.t = "node" /\ IsContainer(NodeOf(r.ref))) =>
              /\ r.ref \notin Range(wOut) /\ v \notin Range(wOut)
              /\ rPc = "done" => \A e \in Range(EntriesOf(r.ref)) : e \in Range(wVisited)
              /\ \A e \in Range(EntriesOf(v)) :
                    e \notin Range(EntriesOf(r.ref)) => e \notin Range(wVisited)

\* A finished walk that pruned a container with files below it and yielded a
\* substitute file in place of an Instance.
C7_Witness ==
    /\ rPc = "done"
    /\ \E i \in 1..Len(wVisited) :
          /\ TransformOf(wVisited[i]).t = "undefined"
          /\ wVisited[i].syn = <<>>
          /\ Descendants(wVisited[i].path) # {}
    /\ \E i \in 1..Len(wVisited) :
          /\ NodeOf(wVisited[i]).kind = "Instance"
          /\ TransformOf(wVisited[i]).t = "node"
          /\ TransformOf(wVisited[i]).ref \in Range(wOut)

\* The bounds of the request as the claim reads them.
BoundGiven(param) == param # {}
BoundMs(param) == DateMs(Get(param))

\* C8: the filter accepts a node iff (no created-before bound, or no
\* createdAtMs, or createdAtMs < bound) and (no modified-after bound, or no
\* modifiedAtMs, or modifiedAtMs > bound); a timestamp equal to its bound is
\* rejected; with neither bound every node is accepted.
C8_DateFilter ==
    Walked =>
    \A path \in DOMAIN tree :
        \E node \in {tree[path]} :
        \E accepted \in {fileFilter(fileFilterFromUrl(rReq), tree[path])} :
        /\ accepted <=>
              /\ \/ ~BoundGiven(rReq.createdBefore)
                 \/ node.createdAtMs = undefined
                 \/ /\ Get(node.createdAtMs) # NaN
                    /\ BoundMs(rReq.createdBefore) # NaN
                    /\ Get(node.createdAtMs) < BoundMs(rReq.createdBefore)
              /\ \/ ~BoundGiven(rReq.modifiedAfter)
                 \/ node.modifiedAtMs = undefined
                 \/ /\ Get(node.modifiedAtMs) # NaN
                    /\ BoundMs(rReq.modifiedAfter) # NaN
                    /\ Get(node.modifiedAtMs) > BoundMs(rReq.modifiedAfter)
        /\ (BoundGiven(rReq.createdBefore)
            /\ node.createdAtMs = Some(BoundMs(rReq.createdBefore))) => ~accepted
        /\ (BoundGiven(rReq.modifiedAfter)
            /\ node.modifiedAtMs = Some(BoundMs(rReq.modifiedAfter))) => ~accepted
        /\ (~BoundGiven(rReq.createdBefore) /\ ~BoundGiven(rReq.modifiedAfter))
              => accepted

\* A walk under a created-before bound that a visited save's creation time
\* equals: the save was not yielded, an earlier one was.
C8_Witness ==
    /\ rPc = "done" /\ ModeOf(rReq) = "folder"
    /\ BoundGiven(rReq.createdBefore) /\ ~BoundGiven(rReq.modifiedAfter)
    /\ \E i \in 1..Len(wVisited) :
          /\ NodeOf(wVisited[i]).createdAtMs = Some(BoundMs(rReq.createdBefore))
          /\ wVisited[i] \notin Range(wOut)
    /\ \E j \in 1..Len(wOut) : NodeOf(wOut[j]).kind = "Save"

\* The Saves of an Instance of the Tree that pass the request's filter, as
\* places in the stored order of its saves directory.
SavesEntries(path) ==
    LET dirs == {e \in Range(tree[path].entries) : tree[e].name = "saves"}
    IN  IF dirs = {} THEN <<>> ELSE tree[CHOOSE e \in dirs : TRUE].entries
QualifyingSaves(path) ==
    {k \in 1..Len(SavesEntries(path)) :
        /\ tree[SavesEntries(path)[k]].kind = "Save"
        /\ fileFilter(fileFilterFromUrl(rReq), tree[SavesEntries(path)[k]])}

VisitedInstances ==
    {wVisited[i].path : i \in {k \in 1..Len(wVisited) :
        wVisited[k].syn = <<>> /\ tree[wVisited[k].path].kind = "Instance"}}

\* C9: in last-save mode every Instance the walk reaches that has a Save
\* passing the filter contributes exactly one file and none of its other
\* files: a synthetic file named after the instance title whose realPath and
\* stat are those of the last passing Save in the saves directory's order.
C9_LastSaveContributes ==
    (Walked /\ ModeOf(rReq) = "last-save") =>
    \A inst \in VisitedInstances :
        QualifyingSaves(inst) # {} =>
        \E save \in {tree[SavesEntries(inst)[Max(QualifyingSaves(inst))]]} :
        /\ \A d \in Descendants(inst) : TreeRef(d) \notin Range(wOut)
        /\ \E j \in 1..Len(wOut) :
              /\ wOut[j].syn # <<>>
              /\ NodeOf(wOut[j]).name = LastSaveName(tree[inst].title)
              /\ NodeOf(wOut[j]).realPath = save.realPath
              /\ NodeOf(wOut[j]).stat = save.stat
              /\ \A k \in 1..Len(wOut) :
                    (wOut[k].syn # <<>>
                     /\ NodeOf(wOut[k]).name = LastSaveName(tree[inst].title)) => k = j

\* C10: in last-save and clusterio-last-save modes an Instance with no Save
\* passing the filter contributes no file, and the walk goes on to completion:
\* it is never the node at which the request fails.
C10_NoSaveDropped ==
    (Walked /\ ModeOf(rReq) \in {"last-save", "clusterio-last-save"}) =>
    \A inst \in VisitedInstances :
        QualifyingSaves(inst) = {} =>
        /\ \A d \in Descendants(inst) : TreeRef(d) \notin Range(wOut)
        /\ \A j \in 1..Len(wOut) :
              wOut[j].syn # <<>> => NodeOf(wOut[j]).name # LastSaveName(tree[inst].title)
        /\ ~(rPc = "threw" /\ wVisited[Len(wVisited)] = TreeRef(inst))

\* The File-like leaves below a node of the Tree that the folder transform
\* lets through, in pre-order: a node failing the date filter is left out
\* with all that is below it.
RECURSIVE FilteredPreOrder(_), FilteredPreOrderFrom(_, _)
FilteredPreOrder(path) ==
    IF ~fileFilter(fileFilterFromUrl(rReq), tree[path]) THEN <<>>
    ELSE IF IsFile(tree[path]) THEN <<TreeRef(path)>>
    ELSE FilteredPreOrderFrom(tree[path].entries, 1)
FilteredPreOrderFrom(e, i) ==
    IF i > Len(e) THEN <<>>
    ELSE FilteredPreOrder(e[i]) \o FilteredPreOrderFrom(e, i + 1)

\* What the claim has an Instance with a qualifying Save contribute: child by
\* child in stored order, the last qualifying Save for the saves directory and
\* the date-filtered files of every other child.
RECURSIVE ClusterioExpected(_, _)
ClusterioExpected(inst, i) ==
    IF i > Len(tree[inst].entries) THEN <<>>
    ELSE (IF tree[tree[inst].entries[i]].name = "saves"
          THEN <<TreeRef(SavesEntries(inst)[Max(QualifyingSaves(inst))])>>
          ELSE FilteredPreOrder(tree[inst].entries[i]))
         \o ClusterioExpected(inst, i + 1)

\* The files of the output that are nodes of the Tree below a node.
OutputBelow(path) ==
    SelectSeq(wOut, LAMBDA ref : ref.syn = <<>> /\ ref.path \in Descendants(path))

\* C11: in clusterio-last-save mode every Instance with a qualifying Save has
\* in the output, under its saves directory, exactly the last Save in stored
\* order that passes the filter, at its original path; its other children
\* come in their original order, date-filtered only; no other Save of it is
\* in the output.
C11_ClusterioLastSave ==
    (rPc = "done" /\ ModeOf(rReq) = "clusterio-last-save") =>
    \A inst \in VisitedInstances :
        QualifyingSaves(inst) # {} =>
            OutputBelow(inst) = ClusterioExpected(inst, 1)

----------------------------------------------------------------------------
(* Claims about the built Tree *)

\* The nodes above a node of the Tree, by the parent each node names.
RECURSIVE Ancestors(_)
Ancestors(path) ==
    IF tree[path].kind = "Root" THEN {}
    ELSE {tree[path].parent} \cup Ancestors(tree[path].parent)

\* The nodes of the whole subtree below a node.
Below(path) == {d \in DOMAIN tree : path \in Ancestors(d)}

RECURSIVE SumOfSizes(_)
SumOfSizes(paths) ==
    IF paths = {} THEN 0
    ELSE \* one path taken out, the rest summed
         (LET d == CHOOSE x \in paths : TRUE
          IN  Get(tree[d].stat).size + SumOfSizes(paths \ {d}))

\* C12: once buildTree has completed, every container has totalSize equal to
\* the sum of stat.size of the File and Save nodes of its whole subtree,
\* filesCount equal to their number and foldersCount equal to the number of
\* directories of its whole subtree.
C12_Totals ==
    bPc = "built" =>
    \A path \in DOMAIN tree :
        IsContainer(tree[path]) =>
        /\ tree[path].totalSize = SumOfSizes({d \in Below(path) : IsFile(tree[d])})
        /\ tree[path].filesCount = Cardinality({d \in Below(path) : IsFile(tree[d])})
        /\ tree[path].foldersCount = Cardinality({d \in Below(path) : IsDir(tree[d])})

\* A built Tree whose Root has directories three levels down: eight
\* directories and nine files below it, one of the files directly.
C12_Witness ==
    /\ bPc = "built"
    /\ tree["/"].foldersCount = 8 /\ tree["/"].filesCount = 9
    /\ Cardinality({d \in DOMAIN tree : tree[d].parent = "/" /\ IsFile(tree[d])}) = 1
    /\ tree["/instances/"].totalSize > 0

\* m is the least of a set of times: no other time of the set is below it,
\* a NaN being neither below nor above any number.
IsLeast(m, times) == m \in times /\ \A x \in times : x = m \/ Less(m, x)
IsGreatest(m, times) == m \in times /\ \A x \in times : x = m \/ Greater(m, x)

CreationTimesBelow(path) ==
    {Get(tree[d].createdAtMs) : d \in {x \in Below(path) : tree[x].createdAtMs # undefined}}
ModificationTimesBelow(path) ==
    {Get(tree[d].modifiedAtMs) : d \in {x \in Below(path) : tree[x].modifiedAtMs # undefined}}

\* C13: after buildTree every container has createdAtMs absent iff no
\* descendant defines a creation time, and otherwise the minimum of those
\* defined; modifiedAtMs absent iff no descendant defines a modification
\* time, and otherwise the maximum.
C13_Timestamps ==
    bPc = "built" =>
    \A path \in DOMAIN tree :
        IsContainer(tree[path]) =>
        /\ tree[path].createdAtMs = undefined <=> CreationTimesBelow(path) = {}
        /\ CreationTimesBelow(path) # {} =>
              IsLeast(Get(tree[path].createdAtMs), CreationTimesBelow(path))
        /\ tree[path].modifiedAtMs = undefined <=> ModificationTimesBelow(path) = {}
        /\ ModificationTimesBelow(path) # {} =>
              IsGreatest(Get(tree[path].modifiedAtMs), ModificationTimesBelow(path))

\* The key buildTree files the node of a directory entry under.
KeyOf(entry) == entry.path \o "/" \o entry.name \o (IF entry.isDir THEN "/" ELSE "")

\* The directory entry a node of the Tree was built from.
EntryOf(path) == CHOOSE e \in Range(bEntries) : KeyOf(e) = path

\* C14: in every built Tree a node is an InstancesDir iff it is a directory
\* named "instances" directly under Root, an Instance iff a directory whose
\* parent is an InstancesDir, a SavesDir iff a directory named "saves" whose
\* parent is an Instance, a Save iff a file whose parent is a SavesDir; every
\* other directory is a Dir and every other file a File.
C14_NodeClasses ==
    bPc = "built" =>
    /\ DOMAIN tree = {"/"} \cup {KeyOf(e) : e \in Range(bEntries)}
    /\ tree["/"].kind = "Root"
    /\ \A path \in DOMAIN tree \ {"/"} :
        \E e \in {EntryOf(path)} : \E parent \in {tree[tree[path].parent]} :
        \E kind \in {tree[path].kind} :
        /\ tree[path].parent \o e.name \o (IF e.isDir THEN "/" ELSE "") = path
        /\ kind = "InstancesDir" <=>
              (e.isDir /\ e.name = "instances" /\ parent.kind = "Root")
        /\ kind = "Instance" <=> (e.isDir /\ parent.kind = "InstancesDir")
        /\ kind = "SavesDir" <=>
              (e.isDir /\ e.name = "saves" /\ parent.kind = "Instance")
        /\ kind = "Save" <=> (~e.isDir /\ parent.kind = "SavesDir")
        /\ kind = "Dir" <=>
              (e.isDir /\ kind \notin {"InstancesDir", "Instance", "SavesDir"})
        /\ kind = "File" <=> (~e.isDir /\ kind # "Save")

\* A built Tree holding a node of each class, a directory named "saves" that
\* is no SavesDir and a file named like a save that is no Save.
C14_Witness ==
    /\ bPc = "built"
    /\ {tree[p].kind : p \in DOMAIN tree} =
          {"Root", "Dir", "InstancesDir", "Instance", "SavesDir", "File", "Save"}
    /\ \E p \in DOMAIN tree : p = "/docs/saves/" /\ tree[p].kind = "Dir"
    /\ \E p \in DOMAIN tree :
          p = "/docs/saves/" \o SaveName(1) /\ tree[p].kind = "File"
    /\ \E p \in DOMAIN tree :
          p = "/instances/i1/saves/unpacked/" /\ tree[p].kind = "Dir"

----------------------------------------------------------------------------
(* Claims about responses and failures *)

\* C16: a /pack download whose archive stream produces a number of bytes other
\* than the Content-Length announced is failed and its connection reset: the
\* response is never ended normally with a body of another length than its
\* Content-Length.
C16_ArchiveLengthEnforced ==
    (tPc = "piped" /\ res.length # {}) =>
        /\ res.state = "ended" => res.bytes = Get(res.length)
        /\ (gPc = "done" /\ res.bytes # Get(res.length)) => res.state # "ended"

\* C15: the relay given expected length L never forwards more than L bytes (a
\* chunk taking the running total above L is not forwarded, the relay fails),
\* fails at the end of input if fewer than L bytes were read, and completes
\* without error iff the source yields exactly L bytes. vRead + vLeft is the
\* number of bytes the source yields if it is read to its end.
C15_RelayLength ==
    vPc # "idle" =>
        /\ res.bytes <= vLength
        /\ res.bytes <= vRead
        /\ vPc = "relaying" => res.bytes = vRead
        /\ vPc = "tooLong" => (vRead > vLength /\ res.bytes < vRead /\ res.state # "ended")
        /\ vPc = "tooShort" => (vLeft = 0 /\ vRead < vLength /\ res.state # "ended")
        /\ vPc = "done" => (vLeft = 0 /\ vRead = vLength /\ res.bytes = vLength)
        /\ vPc \in {"tooLong", "tooShort"} => vRead + vLeft # vLength
        /\ vPc \in {"tooLong", "tooShort", "done"} =>
              (vPc = "done" <=> vRead + vLeft = vLength)

\* A file of several chunks whose stream yields one byte more than fh.stat()
\* said: the relay has failed, having forwarded exactly the expected bytes.
C15_Witness ==
    /\ vPc = "tooLong" /\ vLength > ChunkMax
    /\ res.bytes = vLength /\ vRead = vLength + 1
    /\ res.state = "reset"

\* The request has failed and the catch of the request handler has run.
FailureHandled == err # {} /\ res.state # "open"

\* C17 (state part): response headers are never written twice; a failure met
\* after the headers were sent ends in a reset with no error header or text
\* written; one met before ends in exactly one error response, 400 or 404 with
\* the error's message for a RequestError and 500 otherwise.
C17_OneOutcome ==
    /\ Len(res.heads) <= 1
    /\ FailureHandled =>
          \E e \in err :
          \/ /\ res.state = "reset"
             /\ res.heads = <<200>> /\ res.text = ""
          \/ /\ res.state = "ended"
             /\ res.bytes = Len(res.text) /\ res.length = {Len(res.text)}
             /\ IF e.request
                THEN /\ e.code \in {400, 404}
                     /\ res.heads = <<e.code>> /\ res.text = e.message
                ELSE res.heads = <<500>>

\* C17: for every GET whose handling fails, either the headers were sent and
\* the socket is reset, nothing being written after, or exactly one error
\* response is written; in no execution are headers written twice.
C17_FailureHandling ==
    /\ [](C17_OneOutcome)
    /\ [][res.state \in {"reset", "ended"} => res' = res]_vars
    /\ [][(err # {} /\ res.state = "open" /\ res' # res) =>
             (res'.state = IF res.heads # <<>> THEN "reset" ELSE "ended")]_vars

\* A raw file delivery that failed after a chunk had gone out: the socket was
\* reset under the one 200 header.
C17_Witness ==
    /\ FailureHandled /\ res.state = "reset"
    /\ res.heads = <<200>> /\ res.bytes > 0

\* C18 as claimed: every request that fails with an error that is no
\* RequestError is answered 500 with the body "Internal Server Error".
C18_AlwaysFixedText ==
    (FailureHandled /\ ~Get(err).request) =>
        (res.heads = <<500>> /\ res.text = "Internal Server Error")

\* C18, amended: if the headers were not yet sent when such an error is caught
\* the answer is 500 with the body "Internal Server Error", whatever the error's
\* message; if they were, nothing is written for the error at all.
C18_FixedTextOrReset ==
    (FailureHandled /\ ~Get(err).request) =>
        \/ /\ res.state = "ended"
           /\ res.heads = <<500>> /\ res.text = "Internal Server Error"
           /\ res.bytes = Len("Internal Server Error")
        \/ /\ res.state = "reset"
           /\ res.heads = <<200>> /\ res.text = ""

\* fs.open failed on a raw file request: the error's message holds the path
\* of the file on disk, the response the fixed text.
C18_Witness ==
    /\ FailureHandled
    /\ Get(err).message = "ENOENT: no such file or directory, open 'public/docs/b.txt'"
    /\ res.text = "Internal Server Error" /\ res.heads = <<500>>

\* The request is one for a listing or an archive.
OnResource == rPc # "idle" /\ rReq.endpoint \in {"/files", "/pack"}

\* The format asked for is none the endpoint serves.
BadFormat(req) ==
    IF req.endpoint = "/files"
    THEN req.format # {} /\ Get(req.format) \notin {"plain", "json"}
    ELSE req.format = {} \/ Get(req.format) \notin {"zip", "tar"}

\* The 400 message that names the accepted values of format.
FormatMessage(req) ==
    IF req.endpoint = "/files"
    THEN "Invalid format " \o Get(req.format) \o ", valid values: plain, json"
    ELSE "Invalid format " \o (IF req.format = {} THEN "null" ELSE Get(req.format))
         \o ", valid values: zip, tar"

\* Handling the request has walked no node, begun no archive and opened no file.
NoWorkDone ==
    /\ wVisited = <<>> /\ wOut = <<>> /\ wStack = <<>>
    /\ tPc = "idle" /\ tRecords = <<>> /\ vPc = "idle"

\* C19 as claimed: every /files or /pack request with a format the endpoint
\* does not serve is answered 400 with the message naming the accepted
\* values, and no walker step, file or archive backend comes of it.
C19_BadFormatIs400 ==
    (OnResource /\ BadFormat(rReq)) =>
        /\ NoWorkDone /\ rPc = "rejected"
        /\ res.state # "open" =>
              (res.heads = <<400>> /\ res.text = FormatMessage(rReq))

\* Strings of the shape YYYY-MM-DDTHH:MM among those requests carry.
Shaped(param) ==
    param = {} \/ Get(param) \in {"2024-02-01T00:00", "2024-02-15T00:00",
                                  "2024-02-01T00:05", "2024-13-01T00:00"}

\* Nothing but the format is refused in the request.
OnlyFormatAmiss(req) ==
    /\ Shaped(req.createdBefore) /\ Shaped(req.modifiedAfter)
    /\ req.endpoint = "/pack" =>
          (req.instancesAs = {}
           \/ Get(req.instancesAs) \in {"folder", "last-save", "clusterio-last-save"})
    /\ (IF req.path = {} THEN "/" ELSE Get(req.path)) \in DOMAIN tree

\* C19, amended: such a request is answered with a client error and no walker
\* step, file or archive backend comes of it; the error is the 400 naming the
\* accepted values when the date bounds have the required shape, instances-as
\* is an accepted value and the path names a node, and otherwise the 400 or
\* 404 of the check that fails first.
C19_BadFormatRefused ==
    (OnResource /\ BadFormat(rReq)) =>
        /\ NoWorkDone /\ rPc = "rejected"
        /\ res.state # "open" =>
              /\ res.state = "ended"
              /\ res.heads \in {<<400>>, <<404>>}
              /\ res.text # ""
              /\ OnlyFormatAmiss(rReq) <=>
                    (res.heads = <<400>> /\ res.text = FormatMessage(rReq))

\* A /pack request without format, all else in order, answered with the 400
\* that names zip and tar.
C19_Witness ==
    /\ OnResource /\ rReq.endpoint = "/pack" /\ rReq.format = {}
    /\ rReq.instancesAs = {"last-save"} /\ rReq.path = {"/instances/i1/"}
    /\ res.state = "ended" /\ res.heads = <<400>>
    /\ res.text = "Invalid format null, valid values: zip, tar"

\* The values of the date parameters that denote a date and minute.
RealDate(param) ==
    Get(param) \in {"2024-02-01T00:00", "2024-02-15T00:00", "2024-02-01T00:05"}

\* The 400 message that names a date parameter.
DateMessage(name, param) ==
    "Invalid " \o name \o " " \o Get(param) \o ", valid format 'YYYY-MM-DDTHH:MM'"

\* C20: every /files or /pack request with a created-before or modified-after
\* value that is no valid date and minute (wrong shape, empty, or no real
\* date) is answered 400 with a message naming the parameter, before the path
\* is looked up: an unknown path makes no difference.
C20_BadDateIs400 ==
    (OnResource
     /\ \/ (rReq.createdBefore # {} /\ ~RealDate(rReq.createdBefore))
        \/ (rReq.modifiedAfter # {} /\ ~RealDate(rReq.modifiedAfter))) =>
        /\ NoWorkDone /\ rPc = "rejected"
        /\ res.state # "open" =>
              /\ res.heads = <<400>>
              /\ \/ /\ rReq.createdBefore # {} /\ ~RealDate(rReq.createdBefore)
                    /\ res.text = DateMessage("created-before", rReq.createdBefore)
                 \/ /\ rReq.modifiedAfter # {} /\ ~RealDate(rReq.modifiedAfter)
                    /\ res.text = DateMessage("modified-after", rReq.modifiedAfter)

----------------------------------------------------------------------------
(* Claims about the Tree after startup *)

\* The step is a raw delivery beginning for the File under path p.
RawDeliveryOf(p) ==
    /\ rPc = "idle" /\ rPc' = "raw" /\ rReq'.endpoint = p
    /\ p \in DOMAIN tree /\ IsFile(tree[p])

\* Trees t and u differ at most in the stat of the node under p.
SameButStat(t, u, p) ==
    /\ DOMAIN t = DOMAIN u
    /\ \A q \in DOMAIN t :
          IF q = p THEN [t[q] EXCEPT !.stat = u[q].stat] = u[q]
          ELSE t[q] = u[q]

\* C21: once the Tree is built no step of any request adds, removes or
\* reorders a key or an entry or changes a field of a node, except that the
\* step beginning a raw delivery replaces the stat of the File asked for; no
\* node made by a transform ever enters the Tree.
C21_TreeFrame ==
    [][bPc = "built" =>
          \/ tree' = tree
          \/ \E p \in DOMAIN tree : RawDeliveryOf(p) /\ SameButStat(tree, tree', p)]_vars

\* A transform has made a node during a walk, or a raw delivery has given a
\* File another stat than the scan found, and the Tree has the keys and
\* entries it was built with.
C21_Witness ==
    /\ bPc = "built"
    /\ \/ /\ rPc = "raw"
          /\ \E p \in DOMAIN tree :
                /\ rReq.endpoint = p
                /\ Get(tree[p].stat).size # tree[p].totalSize
       \/ \E i \in 1..Len(wVisited) : wVisited[i].syn # <<>>

\* The name ends in one of the extensions that have a MIME type.
KnownExtension(name) ==
    \E ext \in {".css", ".txt", ".json", ".zip"} :
        /\ Len(name) >= Len(ext)
        /\ SubSeq(name, Len(name) - Len(ext) + 1, Len(name)) = ext

\* The enumerated hierarchy cannot be served: a file has an extension without
\* a MIME type, or a directory of instances/ has no instance.json.
StartupFatal(entries) ==
    \E i \in 1..Len(entries) :
        \/ ~entries[i].isDir /\ ~KnownExtension(entries[i].name)
        \/ /\ entries[i].isDir /\ entries[i].path = "/instances"
           /\ ~\E j \in 1..Len(entries) :
                  /\ entries[j].path = "/instances/" \o entries[i].name
                  /\ entries[j].name = "instance.json" /\ ~entries[j].isDir

\* Every enumerated entry has its node in the Tree and the totals of the root
\* are those of the whole Tree.
WholeTreeBuilt ==
    /\ bPc = "built" /\ bIdx = Len(bEntries)
    /\ Cardinality(DOMAIN tree) = Len(bEntries) + 1
    /\ tree["/"].filesCount = Cardinality({p \in DOMAIN tree : IsFile(tree[p])})
    /\ tree["/"].foldersCount = Cardinality({p \in DOMAIN tree : IsDir(tree[p])})

\* C22: the server listens only once the whole Tree is built and its totals
\* are calculated, requests are handled only by a listening server, and a
\* startup that fails (a rejected read, a missing or unparsable descriptor, an
\* extension without MIME type) stays failed and never listens.
C22_ListenAfterBuild ==
    /\ [](listening => WholeTreeBuilt)
    /\ [](rPc # "idle" => listening)
    /\ [](StartupFatal(bEntries) => ~listening)
    /\ [][bPc = "failed" => (bPc' = "failed" /\ ~listening')]_vars

\* The build has failed on a file whose extension has no MIME type, with
\* nodes already in the Tree, and the server does not listen.
C22_Witness ==
    /\ bPc = "failed" /\ ~listening /\ rPc = "idle"
    /\ 0 < bIdx /\ bIdx < Len(bEntries)
    /\ bEntries[bIdx + 1].name = "README.md"
    /\ StartupFatal(bEntries)

----------------------------------------------------------------------------
(* Claims about streaming *)

\* The i-th chunk the generator yielded has been taken by the response.
Taken(i) == i <= Len(tOut) - Len(tBuf)

\* The generator has yielded the header of record k, and no chunk of a later
\* record.
HeaderYielded(k) ==
    /\ \E i \in 1..Len(tOut) : tOut[i].kind = "header" /\ tOut[i].rec = k
    /\ \A i \in 1..Len(tOut) : tOut[i].kind # "end" /\ tOut[i].rec <= k

----------------------------------------------------------------------------
(* Claims about requests in flight together *)

\* The client of the download has closed its connection.
ArchiveGone == err = {OtherError("Premature close")}

\* The client of raw request i has closed its connection.
RawGone(i) == cs[i].pc = "closed"

Relayed(i) == cs[i].pc \notin {"idle", "opened"}

\* C30: however raw deliveries of one File and writes to it interleave, the
\* Content-Length a request sends is the length its own validateLength
\* enforces, and both are the size that request read from its own file
\* handle; no step of another request or of a writer changes them afterwards.
C30_OwnLength ==
    /\ [](\A i \in Requests :
            Relayed(i) =>
                /\ cs[i].res.length = {cs[i].length}
                /\ cs[i].statSize = {cs[i].length})
    /\ [][\A i \in Requests :
            Relayed(i) =>
                /\ cs'[i].res.length = cs[i].res.length
                /\ cs'[i].length = cs[i].length
                /\ cs'[i].statSize = cs[i].statSize]_vars

\* Both requests relay, the File having changed between their stats: they
\* have sent different lengths, and the node holds the stat of the second.
C30_Witness ==
    /\ cs[1].pc = "relaying" /\ cs[2].pc = "relaying"
    /\ cs[1].length # cs[2].length
    /\ Get(tree[FilePath].stat).size = cs[2].length
    /\ cs[1].res.length = {cs[1].length} /\ cs[2].res.length = {cs[2].length}

----------------------------------------------------------------------------
(* Claims about the ZIP download *)

\* C25: createZipStream registers every file the walker produces exactly
\* once, in the walker's order, with compression disabled and under the name
\* nameFn gives it; the ZIP length is obtained after all files are registered
\* and before any byte is handed to the response, and it is the
\* Content-Length sent.
C25_ZipRegistration ==
    rReq # <<>> /\ rReq.format = {"zip"} =>
        /\ Len(zip.entries) <= Len(wOut)
        /\ \A k \in 1..Len(zip.entries) :
              /\ zip.entries[k].realPath = NodeOf(wOut[k]).realPath
              /\ zip.entries[k].metadataPath
                    = nameFn(OrElse(rReq.path, "/"), RefPath(wOut[k]))
              /\ ~zip.entries[k].compress
        /\ zip.pc = "idle" => (zip.length = {} /\ (err = {} => res.bytes = 0))
        /\ zip.pc # "idle" =>
              /\ rPc = "done" /\ Len(zip.entries) = Len(wOut)
              /\ zip.length # {} /\ Get(zip.length) >= 0
        /\ zip.pc = "ended" => (res.bytes = 0 /\ res.heads = <<>>)
        /\ zip.pc \in {"piped", "failed", "done"} =>
              res.heads[1] = 200 /\ res.length = zip.length
        /\ zip.pc = "done" => res.bytes = Get(zip.length)

C25_Witness ==
    /\ zip.pc = "done" /\ Len(zip.entries) >= 2
    /\ rReq.path = {"/instances/"}
    /\ zip.entries[1].metadataPath = "i1/instance.json"

----------------------------------------------------------------------------
(* Claims about the date-filtered walk *)

\* The walk of the request is the date-filtered one: folder mode, which /files
\* always uses.
FilteredWalk == Walked /\ ModeOf(rReq) = "folder"

\* The files of a sequence that pass the request's filter, in their order.
Refiltered(files) ==
    SelectSeq(files, LAMBDA ref : fileFilter(fileFilterFromUrl(rReq), NodeOf(ref)))

\* C26: every file the created-before-filtered walk yields itself passes the
\* filter, so filtering the files yielded once more with the same bound
\* removes nothing: filtering twice gives the files filtering once gives.
C26_FilterIdempotent ==
    (FilteredWalk /\ BoundGiven(rReq.createdBefore)) =>
        /\ \A i \in 1..Len(wOut) :
              fileFilter(fileFilterFromUrl(rReq), NodeOf(wOut[i]))
        /\ Refiltered(wOut) = wOut
        /\ Refiltered(Refiltered(wOut)) = Refiltered(wOut)

\* A walk under a created-before bound has returned two files or more, and
\* left out a save of the tree below its start node that the bound rejects.
C26_Witness ==
    /\ rPc = "done" /\ ModeOf(rReq) = "folder"
    /\ rReq.createdBefore = {"2024-02-15T00:00"} /\ rReq.modifiedAfter = {}
    /\ Len(wOut) >= 2
    /\ \E p \in Descendants(OrElse(rReq.path, "/")) :
          /\ tree[p].kind = "Save"
          /\ ~fileFilter(fileFilterFromUrl(rReq), tree[p])
          /\ TreeRef(p) \notin Range(wOut)

\* The request walks in folder mode under a date bound of its own.
BoundedWalkDone ==
    /\ rPc = "done" /\ ModeOf(rReq) = "folder"
    /\ BoundGiven(rReq.createdBefore) \/ BoundGiven(rReq.modifiedAfter)

\* C29 as stated: under a date bound in folder mode the files produced are
\* exactly the File-like leaves below the start node that themselves pass the
\* filter, whatever the containers above them.
C29_LeavesOnTheirOwn ==
    BoundedWalkDone => wOut = Refiltered(PreOrder(OrElse(rReq.path, "/")))

\* C29, amended: the files produced are exactly the File-like leaves below the
\* start node for which the leaf and every container from the start node down
\* to it pass the filter, a container by its aggregated times; with only a
\* modified-after bound these are exactly the leaves that pass by themselves.
C29_LeavesUnderPassingContainers ==
    BoundedWalkDone =>
        /\ wOut = FilteredPreOrder(OrElse(rReq.path, "/"))
        /\ ~BoundGiven(rReq.createdBefore) =>
              wOut = Refiltered(PreOrder(OrElse(rReq.path, "/")))

\* A walk from the root under a created-before bound has produced files, and
\* left out a plain File without creation time whose instance has only saves
\* created after the bound.
C29_Witness ==
    /\ BoundedWalkDone /\ rReq.path = {} /\ wOut # <<>>
    /\ rReq.createdBefore = {"2024-02-01T00:00"}
    /\ \E p \in DOMAIN tree :
          /\ tree[p].kind = "File" /\ tree[p].createdAtMs = undefined
          /\ fileFilter(fileFilterFromUrl(rReq), tree[p])
          /\ TreeRef(p) \notin Range(wOut)
          /\ \E c \in Ancestors(p) :
                /\ tree[c].kind = "Instance"
                /\ tree[c].createdAtMs # undefined
                /\ Get(tree[c].createdAtMs) # NaN
                /\ ~fileFilter(fileFilterFromUrl(rReq), tree[c])

----------------------------------------------------------------------------
(* Claims about the totals after startup *)

\* C28: in every state after startup, raw deliveries that refreshed a File's
\* stat to another size included, every container's totalSize is the sum of
\* the current stat.size of the File and Save nodes below it, and every
\* File's own totalSize is its current stat.size.
C28_TotalsStayCurrent ==
    listening =>
    \A path \in DOMAIN tree :
        /\ IsContainer(tree[path]) =>
              tree[path].totalSize = SumOfSizes({d \in Below(path) : IsFile(tree[d])})
        /\ IsFile(tree[path]) => tree[path].totalSize = Get(tree[path].stat).size

----------------------------------------------------------------------------
(* Claims about the order of the build *)

\* The key buildTree looks the parent of an entry up under.
ParentKey(entry) == entry.path \o "/"

EndsInSlash(key) == SubSeq(key, Len(key), Len(key)) = "/"

\* C27: buildTree processes the entries in an order in which the node of an
\* entry's parent directory is in the Tree, under the parent's path ending in
\* "/", whenever the entry is processed; so every node is attached to a parent
\* of the Tree, and every key of the Tree is the derived path of its node,
\* ending in "/" exactly for containers.
C27_ParentsFirst ==
    /\ bPc \in {"building", "built"} =>
          \A i \in 1..Len(bEntries) :
              \/ bEntries[i].path = ""
              \/ \E j \in 1..(i - 1) :
                    /\ bEntries[j].isDir
                    /\ ParentKey(bEntries[i]) = ParentKey(bEntries[j]) \o bEntries[j].name \o "/"
    /\ (bPc = "building" /\ bIdx < Len(bEntries)) =>
          /\ ParentKey(bEntries[bIdx + 1]) \in DOMAIN tree
          /\ IsContainer(tree[ParentKey(bEntries[bIdx + 1])])
    /\ \A key \in DOMAIN tree :
          /\ PathOf(tree, tree[key]) = key
          /\ EndsInSlash(key) <=> IsContainer(tree[key])
          /\ tree[key].kind # "Root" =>
                /\ tree[key].parent \in DOMAIN tree
                /\ key \in Range(tree[tree[key].parent].entries)

\* The entries were sorted and the build has come to a save three
\* directories down, whose instance and saves directory were there for it.
C27_Witness ==
    /\ bPc = "building" /\ bIdx < Len(bEntries)
    /\ \E p \in DOMAIN tree :
          /\ tree[p].kind = "Save"
          /\ tree[tree[p].parent].kind = "SavesDir"
          /\ tree[tree[tree[p].parent].parent].kind = "Instance"
    /\ \E p \in DOMAIN tree : tree[p].kind = "File" /\ tree[p].parent = "/"

============================================================================
